---------------------------- MODULE Spec2Model ----------------------------
(***************************************************************************)
(* A state-machine model of the sigmaepsilon finite-element engine:        *)
(*                                                                         *)
(*   - RepresentativeSurfaceElement.homogenize (material/homg/rvs.py),     *)
(*     one action per phase of the routine, with the mesh, the point set   *)
(*     and the blocks of the mesh as state;                                *)
(*   - FemMesh.load_vector (solid/fem/mesh.py), one action per phase;      *)
(*   - the assembly of the global stiffness and mass matrices in           *)
(*     coordinate format (solid/fem/mesh.py), one action per call;         *)
(*   - the queries FemMesh answers from its tree of blocks: the material   *)
(*     model of a block and the penalty matrix (solid/fem/mesh.py);        *)
(*   - the parallel element kernels (utils/fem/mindlinplate.py,            *)
(*     utils/fem/mindlinshell.py, solid/fem/model/utils.py), one action    *)
(*     per iteration of a parallel loop, in any order.                     *)
(*                                                                         *)
(* Real numbers are modelled exactly: coordinates are integers, and the    *)
(* entries of the matrices homogenize divides are rationals, kept as       *)
(* <<numerator, denominator>>.                                             *)
(***************************************************************************)
EXTENDS Integers, Sequences, FiniteSets, TLC

\* ------------------------------------------------------------------ bounds

\* Largest coordinate of a point of the cell (coordinates are 0..MaxCoord).
MaxCoord == 2
\* Number of cell blocks of the mesh.
NBlocks == 2
\* Number of invocations of homogenize on one structure.
MaxCalls == 2
\* Largest number of elements of an assembled mesh.
MaxElems == 2
\* Largest number of blocks of a mesh tree, the root included.
MaxTree == 3
\* Largest number of elements a kernel call works on.
MaxNE == 2

\* The largest number of axes of a connectivity array passed to LineMesh.
MaxRank == 4

VARIABLES
    \* --- RepresentativeSurfaceElement / its mesh
    pc,           \* position of the running homogenize call, "idle" between calls
    callsLeft,    \* invocations still to be made on this structure
    model,        \* the `model` argument, a sequence of characters
    NSTRE,        \* local NSTRE: 0 while unbound, then 8 or 6
    NDOFN,        \* mesh.NDOFN
    points,       \* mesh.points(): sequence of <<x, y, z>>
    blocks,       \* list(mesh.cellblocks(inclusive=True)): sequence of block records
    loads,        \* mesh.pd.loads
    fixity,       \* mesh.pd.fixity: point -> dof -> BOOLEAN
    strain_loads, \* block.cd.strain_loads per block: 0 is None, else the trailing axis
    constraints,  \* self.constraints
    ib,           \* index of the block the running loop is at
    solveCount,   \* calls of linear_static_analysis in the running invocation
    dofsol,       \* mesh.pd.dofsol as written by the last successful solve
    hooke,        \* local hooke: the accumulated stress-response matrix
    hooke_avg,    \* local hooke_avg: the accumulated measure-weighted block matrices
    result,       \* the returned matrix, <<>> while nothing is returned
    error,        \* the exception that ended the invocation, "" if none
    pre,          \* the mesh/structure fields as they were when the call started
    \* --- FemMesh.load_vector
    lv_pc,        \* position of the running load_vector call
    lv_nodal,     \* root pointdata loads, as a load vector
    lv_body,      \* per block: outcome of celldata.body_load_vector
    lv_strain,    \* per block: outcome of celldata.strain_load_vector
    lv_res,       \* local res
    lv_error,     \* exception that left load_vector, "" if none
    \* --- FemMesh.elastic_stiffness_matrix_coo / consistent_mass_matrix_coo
    a_pc,         \* "idle" before the call, "returned" after it
    a_blocks,     \* self.cellblocks(inclusive=True): sequence of blocks of elements
    a_mass,       \* root pointdata mass per node, <<>> when the field is absent
    a_call,       \* the call made: function and keyword arguments
    a_K,          \* the returned matrix: sequence of <<row, col, value>>
    \* --- FemMesh.model / material_stiffness_matrix / penalty_matrix_coo
    m_pc,         \* "idle", "walking" (in the model property), "resolved", "returned", "raised"
    m_parent,     \* parent of every block of the tree, 0 for the root
    m_model,      \* block._model per block
    m_fixity,     \* root pointdata fixity per degree of freedom
    m_call,       \* the call made: function, block or arguments
    m_at,         \* block whose model property is being evaluated
    m_steps,      \* evaluations of parent.model made by the running call
    m_result,     \* the returned value, <<>> while nothing is returned
    \* --- parallel element kernels
    k_pc,         \* "idle", "loop" (inside the parallel loop), "returned", "raised"
    k_call,       \* the kernel called and its arguments
    k_res,        \* the output array: location -> value
    k_todo,       \* iterations of the parallel loop not yet executed
    k_log,        \* accesses to shared arrays made by the iterations executed
    k_error,      \* exception that left the kernel, "" if none
    \* --- LineMesh and BernoulliFrame
    n_pc,         \* "idle", "checked", "constructed", "celltype", "returned", "raised"
    n_call,       \* the call made and its arguments
    n_result      \* what the call has built so far, or the exception it raised

hvars == <<pc, callsLeft, model, NSTRE, NDOFN, points, blocks, loads, fixity,
           strain_loads, constraints, ib, solveCount, dofsol, hooke, hooke_avg,
           result, error, pre>>
lvars == <<lv_pc, lv_nodal, lv_body, lv_strain, lv_res, lv_error>>
avars == <<a_pc, a_blocks, a_mass, a_call, a_K>>
mvars == <<m_pc, m_parent, m_model, m_fixity, m_call, m_at, m_steps, m_result>>
kvars == <<k_pc, k_call, k_res, k_todo, k_log, k_error>>
nvars == <<n_pc, n_call, n_result>>
vars == <<hvars, lvars, avars, mvars, kvars, nvars>>
\* What a step of homogenize leaves alone, and what a step of load_vector,
\* of an assembly, of a tree query, of a kernel and of a LineMesh does.
notH == <<lvars, avars, mvars, kvars, nvars>>
notL == <<hvars, avars, mvars, kvars, nvars>>
notA == <<hvars, lvars, mvars, kvars, nvars>>
notM == <<hvars, lvars, avars, kvars, nvars>>
notK == <<hvars, lvars, avars, mvars, nvars>>
notN == <<hvars, lvars, avars, mvars, kvars>>

\* ------------------------------------------------------------ point set

Coords == 0..MaxCoord

X(p) == p[1]
Y(p) == p[2]
Z(p) == p[3]

SetMax(S) == CHOOSE m \in S : \A n \in S : n <= m
SetMin(S) == CHOOSE m \in S : \A n \in S : m <= n

\* points.bounds() : [(xmin, xmax), (ymin, ymax), (zmin, zmax)]
bounds(pts) ==
    LET xs == {X(pts[k]) : k \in DOMAIN pts}
        ys == {Y(pts[k]) : k \in DOMAIN pts}
    IN  [xmin |-> SetMin(xs), xmax |-> SetMax(xs),
         ymin |-> SetMin(ys), ymax |-> SetMax(ys)]

\* area = (xmax - xmin) * (ymax - ymin)
area(pts) ==
    LET b == bounds(pts) IN (b.xmax - b.xmin) * (b.ymax - b.ymin)

RECURSIVE SeqSum(_, _)
SeqSum(f, n) == IF n = 0 THEN 0 ELSE f[n] + SeqSum(f, n - 1)

\* points.center(), times len(points): the centroid of the point set is
\* the mean of the coordinates; it is kept multiplied by the number of
\* points so that it stays an integer.
centerTimesN(pts) ==
    LET n == Len(pts)
    IN  << SeqSum([k \in 1..n |-> X(pts[k])], n),
           SeqSum([k \in 1..n |-> Y(pts[k])], n),
           SeqSum([k \in 1..n |-> Z(pts[k])], n) >>

\* Squared distance of the point p from target/s (both scaled by s).
Dist2(p, target, s) ==
      (s * X(p) - target[1]) * (s * X(p) - target[1])
    + (s * Y(p) - target[2]) * (s * Y(p) - target[2])
    + (s * Z(p) - target[3]) * (s * Z(p) - target[3])

\* points.index_of_closest(target / s): the first index at which the
\* distance from the target is minimal (argmin).
index_of_closest(pts, target, s) ==
    CHOOSE k \in DOMAIN pts :
        /\ \A j \in DOMAIN pts : Dist2(pts[k], target, s) <= Dist2(pts[j], target, s)
        /\ \A j \in DOMAIN pts :
              Dist2(pts[j], target, s) = Dist2(pts[k], target, s) => k <= j

\* The three anchoring points of homogenize.
AnchorCenter(pts) == index_of_closest(pts, centerTimesN(pts), Len(pts))
AnchorX(pts) == index_of_closest(pts, <<bounds(pts).xmax, 0, 0>>, 1)
AnchorY(pts) == index_of_closest(pts, <<0, bounds(pts).ymax, 0>>, 1)


\* --------------------------------------------------- homogenize: helpers

\* str.lower() on the characters a model name is written with.
LowerChar(c) ==
    CASE c = "M" -> "m"
      [] c = "R" -> "r"
      [] c = "K" -> "k"
      [] c = "L" -> "l"
      [] OTHER -> c

lower(s) == [k \in DOMAIN s |-> LowerChar(s[k])]

\* Model names homogenize is called with.
ModelNames == { <<"m", "R">>, <<"M", "L">> }

\* Lines 50-53: NSTRE as bound by the if/elif; 0 stands for the unbound name.
nstre_of(m) ==
    IF lower(m) = <<"m", "r">> THEN 8
    ELSE IF lower(m) = <<"k", "l">> THEN 6
    ELSE 0

Dofs(n) == 0..(n - 1)

\* f with the degrees of freedom D of point i set to True.
SetDofs(f, i, D) ==
    [f EXCEPT ![i] = [d \in DOMAIN @ |-> IF d \in D THEN TRUE ELSE @[d]]]

\* A faulty variant of nodal_fixity: the point nearest [xmax, 0, 0] gets one
\* fixed degree of freedom instead of two.
nodal_fixity_one_dof(pts, n) ==
    LET f0 == [p \in DOMAIN pts |-> [d \in Dofs(n) |-> FALSE]]
        f1 == SetDofs(f0, AnchorCenter(pts), {d \in Dofs(n) : d < 3})
        f2 == SetDofs(f1, AnchorX(pts), {2})
    IN  SetDofs(f2, AnchorY(pts), {2})

\* Lines 66-73: the fixity array against rigid body motion.
nodal_fixity(pts, n) ==
    LET f0 == [p \in DOMAIN pts |-> [d \in Dofs(n) |-> FALSE]]
        f1 == SetDofs(f0, AnchorCenter(pts), {d \in Dofs(n) : d < 3})
        f2 == SetDofs(f1, AnchorX(pts), {1, 2})
    IN  SetDofs(f2, AnchorY(pts), {2})

\* Lines 62: np.zeros((len(points), NDOFN, NSTRE)).
zero_loads(pts, n, nrhs) == [zero |-> TRUE, np |-> Len(pts), ndofn |-> n, nrhs |-> nrhs]

\* Loads and fixity a user has put on the mesh before homogenize is called.
user_loads(pts, n) == [zero |-> FALSE, np |-> Len(pts), ndofn |-> n, nrhs |-> 1]
user_fixity(pts, n) == [p \in DOMAIN pts |-> [d \in Dofs(n) |-> TRUE]]

\* Lines 23-28: the periodicity constraint linking opposite sides.
periodic_essential_ebc(axis) == [kind |-> "NodeToNode", axis |-> axis]

\* ------------------------------------------------- matrices of rationals

\* A matrix is M[i][j] with i, j in 0..n-1.

\* A rational is <<numerator, denominator>>, denominator > 0.
RatEq(a, b) == a[1] * b[2] = b[1] * a[2]
RatAdd(a, b) == << a[1] * b[2] + b[1] * a[2], a[2] * b[2] >>
RatSub(a, b) == << a[1] * b[2] - b[1] * a[2], a[2] * b[2] >>
RatDiv(a, k) == << a[1], a[2] * k >>
RatMulDiv(a, k, l) == << a[1] * k, a[2] * l >>

ZeroMat(n) == [i \in Dofs(n) |-> [j \in Dofs(n) |-> <<0, 1>>]]
MatAdd(A, B) == [i \in DOMAIN A |-> [j \in DOMAIN A[i] |-> RatAdd(A[i][j], B[i][j])]]
MatSub(A, B) == [i \in DOMAIN A |-> [j \in DOMAIN A[i] |-> RatSub(A[i][j], B[i][j])]]
MatDiv(A, k) == [i \in DOMAIN A |-> [j \in DOMAIN A[i] |-> RatDiv(A[i][j], k)]]

\* ------------------------------------------------------- element kernels

\* The kinds of block a mesh is built of: element dimension NDIM, the
\* smallest Jacobian determinant over its elements and quadrature points,
\* and the scale of its recovered forces (f), of its constitutive matrix
\* (c) and of its geometric measure.
BlockKinds ==
    { [NDIM |-> 2, djac |-> 1,  f |-> 1, c |-> 3, measure |-> 1],
      [NDIM |-> 3, djac |-> 2,  f |-> 2, c |-> 5, measure |-> 2],
      [NDIM |-> 1, djac |-> 1,  f |-> 1, c |-> 1, measure |-> 1],
      [NDIM |-> 2, djac |-> 0,  f |-> 1, c |-> 3, measure |-> 1],
      [NDIM |-> 3, djac |-> -1, f |-> 2, c |-> 5, measure |-> 2] }

\* block.cd.jacobian: the Jacobian determinant; the mapping fails when the
\* determinant is not positive.
jacobian(b) == IF b.djac <= 0 THEN "error" ELSE "ok"

\* _postproc_3d_gauss_stresses / _postproc_shell_gauss_dynams: the block's
\* quadrature-integrated forces, one column per load case.
stress_response(b, n) ==
    [i \in Dofs(n) |-> [j \in Dofs(n) |->
        << b.f * b.djac * (IF i = j THEN 2 ELSE 1), 1 >>]]

\* _calc_avg_hooke_3d_to_shell / _calc_avg_hooke_shell: the block's own
\* constitutive matrix weighted by its measure.
avg_hooke(b, n) ==
    [i \in Dofs(n) |-> [j \in Dofs(n) |->
        << b.c * b.measure * (IF i = j THEN 4 ELSE 1), 1 >>]]

\* Outcomes of Structure.linear_static_analysis.
SolveOutcomes == {"ok", "singular"}

\* A faulty variant of homogenized: the shear block is taken from the
\* stress-response matrix before its division by the area.
homogenized_undivided(h, havg, a, n) ==
    LET diff == MatSub(MatDiv(havg, a), MatDiv(h, a))
    IN  [i \in DOMAIN diff |-> [j \in DOMAIN diff[i] |->
            IF n = 8 /\ i \in 6..7 /\ j \in 6..7
            THEN RatMulDiv(h[i][j], 5, 6)
            ELSE diff[i][j]]]

\* Lines 129-134: hooke /= area; hooke_avg /= area; result = hooke_avg -
\* hooke; for NSTRE == 8 the block [6:8, 6:8] is hooke[6:8, 6:8] * 5/6,
\* hooke being the matrix already divided in place.
homogenized(h, havg, a, n) ==
    LET hd == MatDiv(h, a)
        hv == MatDiv(havg, a)
        diff == MatSub(hv, hd)
    IN  [i \in DOMAIN diff |-> [j \in DOMAIN diff[i] |->
            IF n = 8 /\ i \in 6..7 /\ j \in 6..7
            THEN RatMulDiv(hd[i][j], 5, 6)
            ELSE diff[i][j]]]


\* ------------------------------------------------- homogenize: the steps

Snapshot == [loads |-> loads, fixity |-> fixity, strain_loads |-> strain_loads,
             constraints |-> constraints]

\* The caller enters homogenize(model=m).
Enter(m) ==
    /\ pc = "idle"
    /\ callsLeft > 0
    /\ pc' = "setup"
    /\ callsLeft' = callsLeft - 1
    /\ model' = m
    /\ NSTRE' = 0
    /\ ib' = 0
    /\ solveCount' = 0
    /\ hooke' = <<>>
    /\ hooke_avg' = <<>>
    /\ result' = <<>>
    /\ error' = ""
    /\ pre' = Snapshot
    /\ UNCHANGED <<NDOFN, points, blocks, loads, fixity, strain_loads,
                   constraints, dofsol>>
    /\ UNCHANGED notH

\* homogenize(model) called directly.
CallHomogenize == \E m \in ModelNames : Enter(m)

\* ABD(): homogenize(model='KL').
ABD == Enter(<<"K", "L">>)

\* ABDS(): homogenize(model='MR').
ABDS == Enter(<<"M", "R">>)

\* A faulty variant of Setup: an unknown model name falls back to the
\* 8-component model instead of failing.
SetupDefaultModel ==
    /\ pc = "setup"
    /\ LET n == IF nstre_of(model) = 0 THEN 8 ELSE nstre_of(model)
       IN  /\ NSTRE' = n
           /\ loads' = zero_loads(points, NDOFN, n)
           /\ fixity' = nodal_fixity(points, NDOFN)
           /\ pc' = "strain"
           /\ ib' = 1
           /\ UNCHANGED error
    /\ UNCHANGED <<callsLeft, model, NDOFN, points, blocks, strain_loads,
                   constraints, solveCount, dofsol, hooke, hooke_avg, result, pre>>
    /\ UNCHANGED notH

\* Lines 47-76: NSTRE from the model name, the mesh data, the zeroed nodal
\* loads, the fixity against rigid body motion and the periodicity
\* constraint.  With a model name that is neither 'mr' nor 'kl' NSTRE is
\* unbound and line 62 raises before anything is written.
Setup ==
    /\ pc = "setup"
    /\ IF nstre_of(model) = 0
       THEN /\ error' = "UnboundLocalError"
            /\ pc' = "raised"
            /\ UNCHANGED <<NSTRE, loads, fixity, ib>>
       ELSE /\ NSTRE' = nstre_of(model)
            /\ loads' = zero_loads(points, NDOFN, nstre_of(model))
            /\ fixity' = nodal_fixity(points, NDOFN)
            /\ pc' = "strain"
            /\ ib' = 1
            /\ UNCHANGED error
    /\ UNCHANGED <<callsLeft, model, NDOFN, points, blocks, strain_loads,
                   constraints, solveCount, dofsol, hooke, hooke_avg, result, pre>>
    /\ UNCHANGED notH

\* A faulty variant of StrainLoad: the strain loads of a surface block are
\* transformed but not stored.
StrainLoadNotStored ==
    /\ pc = "strain"
    /\ IF blocks[ib].NDIM \in {2, 3}
       THEN /\ strain_loads' = IF blocks[ib].NDIM = 3
                               THEN [strain_loads EXCEPT ![ib] = NSTRE]
                               ELSE strain_loads
            /\ ib' = ib + 1
            /\ pc' = IF ib = Len(blocks) THEN "append" ELSE "strain"
            /\ UNCHANGED error
       ELSE /\ error' = "NotImplementedError"
            /\ pc' = "raised"
            /\ UNCHANGED <<strain_loads, ib>>
    /\ UNCHANGED <<callsLeft, model, NSTRE, NDOFN, points, blocks, loads, fixity,
                   constraints, solveCount, dofsol, hooke, hooke_avg, result, pre>>
    /\ UNCHANGED notH

\* Lines 80-94, one turn of the loop: the unit strain loads of block ib are
\* stored in the block (NDIM 3: as they are, NDIM 2: transformed to the
\* surface frames); any other NDIM raises NotImplementedError.
StrainLoad ==
    /\ pc = "strain"
    /\ IF blocks[ib].NDIM \in {2, 3}
       THEN /\ strain_loads' = [strain_loads EXCEPT ![ib] = NSTRE]
            /\ ib' = ib + 1
            /\ pc' = IF ib = Len(blocks) THEN "append" ELSE "strain"
            /\ UNCHANGED error
       ELSE /\ error' = "NotImplementedError"
            /\ pc' = "raised"
            /\ UNCHANGED <<strain_loads, ib>>
    /\ UNCHANGED <<callsLeft, model, NSTRE, NDOFN, points, blocks, loads, fixity,
                   constraints, solveCount, dofsol, hooke, hooke_avg, result, pre>>
    /\ UNCHANGED notH

\* A faulty variant of AppendConstraint: the constraint list is cleared
\* before the periodicity constraint is appended.
AppendConstraintCleared ==
    /\ pc = "append"
    /\ constraints' = << periodic_essential_ebc(<<0, 1>>) >>
    /\ pc' = "solve"
    /\ UNCHANGED <<callsLeft, model, NSTRE, NDOFN, points, blocks, loads, fixity,
                   strain_loads, ib, solveCount, dofsol, hooke, hooke_avg, result,
                   error, pre>>
    /\ UNCHANGED notH

\* Line 98: self.constraints.append(periodicity_constraints); the next
\* statement is the call of linear_static_analysis.
AppendConstraint ==
    /\ pc = "append"
    /\ constraints' = Append(constraints, periodic_essential_ebc(<<0, 1>>))
    /\ pc' = "solve"
    /\ UNCHANGED <<callsLeft, model, NSTRE, NDOFN, points, blocks, loads, fixity,
                   strain_loads, ib, solveCount, dofsol, hooke, hooke_avg, result,
                   error, pre>>
    /\ UNCHANGED notH

\* A faulty variant of Solve: a failed solve puts the loads, the fixity,
\* the strain loads and the constraint list back as they were.
SolveRollback ==
    /\ pc = "solve"
    /\ solveCount' = solveCount + 1
    /\ \E outcome \in SolveOutcomes :
          IF outcome = "ok"
          THEN /\ dofsol' = [nrhs |-> NSTRE, constraints |-> constraints,
                             call |-> callsLeft]
               /\ hooke' = ZeroMat(NSTRE)
               /\ hooke_avg' = ZeroMat(NSTRE)
               /\ ib' = 1
               /\ pc' = "clear"
               /\ UNCHANGED <<error, loads, fixity, strain_loads, constraints>>
          ELSE /\ error' = "LinAlgError"
               /\ pc' = "raised"
               /\ loads' = pre.loads
               /\ fixity' = pre.fixity
               /\ strain_loads' = pre.strain_loads
               /\ constraints' = pre.constraints
               /\ UNCHANGED <<dofsol, hooke, hooke_avg, ib>>
    /\ UNCHANGED <<callsLeft, model, NSTRE, NDOFN, points, blocks, result, pre>>
    /\ UNCHANGED notH

\* Lines 99-103: self.linear_static_analysis() runs; when it returns, the
\* displacement solution is on the mesh and the two accumulators are zeroed;
\* when the system is singular it raises.
Solve ==
    /\ pc = "solve"
    /\ solveCount' = solveCount + 1
    /\ \E outcome \in SolveOutcomes :
          IF outcome = "ok"
          THEN /\ dofsol' = [nrhs |-> NSTRE, constraints |-> constraints,
                             call |-> callsLeft]
               /\ hooke' = ZeroMat(NSTRE)
               /\ hooke_avg' = ZeroMat(NSTRE)
               /\ ib' = 1
               /\ pc' = "clear"
               /\ UNCHANGED error
          ELSE /\ error' = "LinAlgError"
               /\ pc' = "raised"
               /\ UNCHANGED <<dofsol, hooke, hooke_avg, ib>>
    /\ UNCHANGED <<callsLeft, model, NSTRE, NDOFN, points, blocks, loads, fixity,
                   strain_loads, constraints, result, pre>>
    /\ UNCHANGED notH

\* A faulty variant of Clear: the strain loads of the block are left in place.
ClearNothing ==
    /\ pc = "clear"
    /\ pc' = "forces"
    /\ UNCHANGED <<callsLeft, model, NSTRE, NDOFN, points, blocks, loads, fixity,
                   strain_loads, constraints, ib, solveCount, dofsol, hooke,
                   hooke_avg, result, error, pre>>
    /\ UNCHANGED notH

\* Lines 105-107, the head of one turn of the recovery loop:
\* block.cd.strain_loads = None, then the block's material matrix and
\* quadrature are read; the next statement recovers the block's forces.
Clear ==
    /\ pc = "clear"
    /\ strain_loads' = [strain_loads EXCEPT ![ib] = 0]
    /\ pc' = "forces"
    /\ UNCHANGED <<callsLeft, model, NSTRE, NDOFN, points, blocks, loads, fixity,
                   constraints, ib, solveCount, dofsol, hooke, hooke_avg, result,
                   error, pre>>
    /\ UNCHANGED notH

\* A faulty variant of RecoverForces: a failed Jacobian is caught and the block
\* is integrated all the same.
RecoverForcesUnchecked ==
    /\ pc = "forces"
    /\ IF blocks[ib].NDIM \in {2, 3}
       THEN /\ hooke' = MatAdd(hooke, stress_response(blocks[ib], NSTRE))
            /\ hooke_avg' = MatAdd(hooke_avg, avg_hooke(blocks[ib], NSTRE))
            /\ ib' = ib + 1
            /\ pc' = IF ib = Len(blocks) THEN "combine" ELSE "clear"
            /\ UNCHANGED error
       ELSE /\ error' = "NotImplementedError"
            /\ pc' = "raised"
            /\ UNCHANGED <<hooke, hooke_avg, ib>>
    /\ UNCHANGED <<callsLeft, model, NSTRE, NDOFN, points, blocks, loads, fixity,
                   strain_loads, constraints, solveCount, dofsol, result, pre>>
    /\ UNCHANGED notH

\* Lines 108-127, the rest of the turn: the block's internal forces are
\* recovered, its Jacobian determinants computed, and the forces and the
\* block's material matrix are integrated into hooke and hooke_avg.  An
\* error of the Jacobian kernel is not caught here and leaves homogenize.
RecoverForces ==
    /\ pc = "forces"
    /\ IF blocks[ib].NDIM \in {2, 3}
       THEN IF jacobian(blocks[ib]) = "error"
            THEN /\ error' = "JacobianError"
                 /\ pc' = "raised"
                 /\ UNCHANGED <<hooke, hooke_avg, ib>>
            ELSE /\ hooke' = MatAdd(hooke, stress_response(blocks[ib], NSTRE))
                 /\ hooke_avg' = MatAdd(hooke_avg, avg_hooke(blocks[ib], NSTRE))
                 /\ ib' = ib + 1
                 /\ pc' = IF ib = Len(blocks) THEN "combine" ELSE "clear"
                 /\ UNCHANGED error
       ELSE /\ error' = "NotImplementedError"
            /\ pc' = "raised"
            /\ UNCHANGED <<hooke, hooke_avg, ib>>
    /\ UNCHANGED <<callsLeft, model, NSTRE, NDOFN, points, blocks, loads, fixity,
                   strain_loads, constraints, solveCount, dofsol, result, pre>>
    /\ UNCHANGED notH

\* Lines 129-134: both accumulators are divided by the area in place, the
\* result is combined and returned.
Combine ==
    /\ pc = "combine"
    /\ result' = homogenized(hooke, hooke_avg, area(points), NSTRE)
    /\ hooke' = MatDiv(hooke, area(points))
    /\ hooke_avg' = MatDiv(hooke_avg, area(points))
    /\ pc' = "returned"
    /\ UNCHANGED <<callsLeft, model, NSTRE, NDOFN, points, blocks, loads, fixity,
                   strain_loads, constraints, ib, solveCount, dofsol, error, pre>>
    /\ UNCHANGED notH

\* The invocation is over (a result was returned or an exception left
\* homogenize): the locals hooke and hooke_avg are gone, the caller holds
\* the result or the exception, and the structure and its mesh stay as they
\* are.
Leave ==
    /\ pc \in {"returned", "raised"}
    /\ pc' = "idle"
    /\ hooke' = <<>>
    /\ hooke_avg' = <<>>
    /\ UNCHANGED <<callsLeft, model, NSTRE, NDOFN, points, blocks, loads, fixity,
                   strain_loads, constraints, ib, solveCount, dofsol, result,
                   error, pre>>
    /\ UNCHANGED notH

HNext ==
    \/ CallHomogenize
    \/ ABD
    \/ ABDS
    \/ Setup
    \/ StrainLoad
    \/ AppendConstraint
    \/ Solve
    \/ Clear
    \/ RecoverForces
    \/ Combine
    \/ Leave

\* ---------------------------------------------- homogenize: initial states

\* Rectangular cells: the four corners of [0, w] x [0, h].
RectCells ==
    { << <<0, 0, 0>>, <<w, 0, 0>>, <<w, h, 0>>, <<0, h, 0>> >> :
          w \in 1..MaxCoord, h \in 1..MaxCoord }

\* Free-form point sets: three distinct points of the plane z = 0 that
\* span a bounding box of positive area.
PointIds == 1..3

FreePointSets ==
    { pts \in [PointIds -> (Coords \X Coords \X {0})] :
          /\ \A j, k \in PointIds : j # k => pts[j] # pts[k]
          /\ area(pts) > 0 }

\* The state of a structure on which homogenize has not run: the mesh holds
\* the user's loads and fixity, no block has strain loads, and the
\* structure has one constraint of the user's.
HInitWith(pts, bl, n, calls) ==
    /\ pc = "idle"
    /\ callsLeft = calls
    /\ model = <<>>
    /\ NSTRE = 0
    /\ NDOFN = n
    /\ points = pts
    /\ blocks = bl
    /\ loads = user_loads(pts, n)
    /\ fixity = user_fixity(pts, n)
    /\ strain_loads = [b \in DOMAIN bl |-> 0]
    /\ constraints = << [kind |-> "user", axis |-> <<>>] >>
    /\ ib = 0
    /\ solveCount = 0
    /\ dofsol = [nrhs |-> 0, constraints |-> <<>>, call |-> -1]
    /\ hooke = <<>>
    /\ hooke_avg = <<>>
    /\ result = <<>>
    /\ error = ""
    /\ pre = [loads |-> user_loads(pts, n), fixity |-> user_fixity(pts, n),
              strain_loads |-> [b \in DOMAIN bl |-> 0],
              constraints |-> << [kind |-> "user", axis |-> <<>>] >>]

\* mesh.NDOFN: 6 (FemMesh), 3 (SolidMesh).
MeshDofs == {3, 6}

HInit ==
    \E pts \in RectCells, bl \in [1..NBlocks -> BlockKinds], n \in MeshDofs :
        HInitWith(pts, bl, n, MaxCalls)

\* No load_vector call is running.
LIdle ==
    /\ lv_pc = "idle"
    /\ lv_nodal = <<>>
    /\ lv_body = <<>>
    /\ lv_strain = <<>>
    /\ lv_res = <<>>
    /\ lv_error = ""

\* No assembly has been called.
AIdle ==
    /\ a_pc = "idle"
    /\ a_blocks = <<>>
    /\ a_mass = <<>>
    /\ a_call = <<>>
    /\ a_K = <<>>

\* No tree query has been called.
MIdle ==
    /\ m_pc = "idle"
    /\ m_parent = <<>>
    /\ m_model = <<>>
    /\ m_fixity = <<>>
    /\ m_call = <<>>
    /\ m_at = 0
    /\ m_steps = 0
    /\ m_result = <<>>

\* No kernel has been called.
KIdle ==
    /\ k_pc = "idle"
    /\ k_call = <<>>
    /\ k_res = <<>>
    /\ k_todo = {}
    /\ k_log = {}
    /\ k_error = ""

\* No LineMesh is being constructed.
NIdle ==
    /\ n_pc = "idle"
    /\ n_call = <<>>
    /\ n_result = <<>>

Init == HInit /\ LIdle /\ AIdle /\ MIdle /\ KIdle /\ NIdle

\* A mesh of healthy blocks, surface and solid blocks in turn.
HealthyBlocks ==
    [b \in 1..NBlocks |->
        IF b % 2 = 1 THEN [NDIM |-> 2, djac |-> 1, f |-> 1, c |-> 3, measure |-> 1]
                     ELSE [NDIM |-> 3, djac |-> 2, f |-> 2, c |-> 5, measure |-> 2]]

\* One invocation of homogenize on every free-form point set.
AnchorInit ==
    /\ \E pts \in FreePointSets : HInitWith(pts, HealthyBlocks, 6, 1)
    /\ LIdle /\ AIdle /\ MIdle /\ KIdle /\ NIdle

\* ------------------------------------------------- FemMesh.load_vector

\* Degrees of freedom of the load vectors.
Eqs == 1..2

\* Load vectors a block (or the nodal data) can hold.
LoadVecs == { <<1, 0>>, <<0, 2>> }

\* What block.celldata.body_load_vector / strain_load_vector does for a
\* block: returns None, returns a vector, or raises.
BlockLoadOutcomes ==
    { [kind |-> "none", v |-> <<0, 0>>], [kind |-> "raise", v |-> <<0, 0>>] }
    \cup { [kind |-> "vec", v |-> v] : v \in LoadVecs }

VecAdd(a, b) == [k \in Eqs |-> a[k] + b[k]]

RECURSIVE VecSum(_)
VecSum(vs) == IF vs = <<>> THEN <<0, 0>> ELSE VecAdd(Head(vs), VecSum(Tail(vs)))

\* filter(lambda i: i is not None, ...)
RECURSIVE filter_not_none(_)
filter_not_none(outs) ==
    IF outs = <<>> THEN <<>>
    ELSE IF Head(outs).kind = "none" THEN filter_not_none(Tail(outs))
    ELSE <<Head(outs).v>> \o filter_not_none(Tail(outs))

\* np.sum(list(m), axis=0): the sum of the vectors; of an empty list, the
\* scalar 0.0.
np_sum(vs) ==
    IF vs = <<>> THEN [scalar |-> TRUE, v |-> <<0, 0>>]
    ELSE [scalar |-> FALSE, v |-> VecSum(vs)]

\* res += x, a scalar being broadcast.
iadd(res, x) == VecAdd(res, x.v)

Raises(outs) == \E k \in DOMAIN outs : outs[k].kind = "raise"

\* Lines 295-299 and 302-306: try: res += np.sum(list(filter(...)), axis=0)
\* except Exception: pass.  The list is built inside the try, so an
\* exception of any block leaves res as it was.
try_add(res, outs) ==
    IF Raises(outs) THEN res ELSE iadd(res, np_sum(filter_not_none(outs)))

\* The caller enters load_vector().
LvCall ==
    /\ lv_pc = "idle"
    /\ lv_pc' = "nodal"
    /\ UNCHANGED <<lv_nodal, lv_body, lv_strain, lv_res, lv_error>>
    /\ UNCHANGED notL

\* Lines 288-292: res is the vector of the concentrated nodal loads.
LvNodal ==
    /\ lv_pc = "nodal"
    /\ lv_res' = lv_nodal
    /\ lv_pc' = "body"
    /\ UNCHANGED <<lv_nodal, lv_body, lv_strain, lv_error>>
    /\ UNCHANGED notL

\* Lines 294-299: the body loads of the blocks.
LvBody ==
    /\ lv_pc = "body"
    /\ lv_res' = try_add(lv_res, lv_body)
    /\ lv_pc' = "strain"
    /\ UNCHANGED <<lv_nodal, lv_body, lv_strain, lv_error>>
    /\ UNCHANGED notL

\* Lines 301-306: the strain loads of the blocks.
LvStrain ==
    /\ lv_pc = "strain"
    /\ lv_res' = try_add(lv_res, lv_strain)
    /\ lv_pc' = "return"
    /\ UNCHANGED <<lv_nodal, lv_body, lv_strain, lv_error>>
    /\ UNCHANGED notL

\* Line 307: return res.
LvReturn ==
    /\ lv_pc = "return"
    /\ lv_pc' = "returned"
    /\ UNCHANGED <<lv_nodal, lv_body, lv_strain, lv_res, lv_error>>
    /\ UNCHANGED notL

LNext ==
    \/ LvCall
    \/ LvNodal
    \/ LvBody
    \/ LvStrain
    \/ LvReturn

\* A mesh with nodal loads whose blocks each answer the two load queries
\* in one of the possible ways.
LInit ==
    /\ lv_pc = "idle"
    /\ lv_nodal \in LoadVecs
    /\ lv_body \in [1..NBlocks -> BlockLoadOutcomes]
    /\ lv_strain \in [1..NBlocks -> BlockLoadOutcomes]
    /\ lv_res = <<>>
    /\ lv_error = ""

\* No homogenize call is running or will run.
HIdle ==
    HInitWith(<< <<0, 0, 0>>, <<1, 0, 0>>, <<1, 1, 0>>, <<0, 1, 0>> >>,
              HealthyBlocks, 6, 0)

\* ------------------------------------------ assembly: blocks and elements

\* Global degrees of freedom of the assembled mesh.
ADofs == 1..3

\* The element matrices of a cell over its two degrees of freedom, stiffness
\* Ke and mass Me: couplings of either sign, a cell without coupling (its
\* off-diagonal entries are exact zeros) and a cell of an unsymmetric
\* formulation.
ElemKinds ==
    { [Ke |-> << <<2, 1>>, <<1, 2>> >>,   Me |-> << <<2, 1>>, <<1, 2>> >>],
      [Ke |-> << <<2, -1>>, <<-1, 2>> >>, Me |-> << <<4, -1>>, <<-1, 4>> >>],
      [Ke |-> << <<1, 0>>, <<0, 1>> >>,   Me |-> << <<3, 0>>, <<0, 3>> >>],
      [Ke |-> << <<2, 1>>, <<-1, 2>> >>,  Me |-> << <<2, -1>>, <<1, 2>> >>] }

\* The global degrees of freedom a cell connects.
Conns == { <<1, 2>>, <<2, 3>> }

\* self.cellblocks(inclusive=True): the blocks of the mesh in their stable
\* order, the cells es cut into blocks after the positions in cuts.
cellblocks(es, cuts) ==
    [b \in 1..(Cardinality(cuts) + 1) |->
        LET idx == { i \in 1..Len(es) :
                        Cardinality({ cu \in cuts : cu < i }) + 1 = b }
        IN  SubSeq(es, SetMin(idx), SetMax(idx))]

RECURSIVE Concat(_)
\* np.vstack / list concatenation: the sequences of ss one after the other.
Concat(ss) == IF ss = <<>> THEN <<>> ELSE Head(ss) \o Concat(Tail(ss))

\* Scatter of one element matrix: entry (i, j) goes to the global key
\* (conn[i], conn[j]).
element_triplets(conn, M) ==
    << <<conn[1], conn[1], M[1][1]>>, <<conn[1], conn[2], M[1][2]>>,
       <<conn[2], conn[1], M[2][1]>>, <<conn[2], conn[2], M[2][2]>> >>

\* block.celldata.elastic_stiffness_matrix_coo(): the triplets of all cells
\* of the block, duplicates of a key kept side by side.
celldata_elastic_stiffness_matrix_coo(b) ==
    Concat([e \in DOMAIN b |-> element_triplets(b[e].conn, b[e].Ke)])

\* block.celldata.consistent_mass_matrix_coo()
celldata_consistent_mass_matrix_coo(b) ==
    Concat([e \in DOMAIN b |-> element_triplets(b[e].conn, b[e].Me)])

\* block.celldata.pull(data=d, avg=v): the nodal masses gathered per cell.
pull(b, d) == [e \in DOMAIN b |-> d[b[e].conn[1]] + d[b[e].conn[2]]]

\* block.celldata.consistent_mass_matrix_coo(values=...): the consistent
\* mass matrix of every cell for the mass gathered on it.
celldata_consistent_mass_matrix_coo_values(b, values) ==
    Concat([e \in DOMAIN b |->
        element_triplets(b[e].conn,
            << <<2 * values[e], values[e]>>, <<values[e], 2 * values[e]>> >>)])

\* fem_nodal_mass_matrix_coo(values, eliminate_zeros, sum_duplicates, ndof):
\* every nodal mass on the diagonal entry of its node.
fem_nodal_mass_matrix_coo(values, ez) ==
    LET all == [n \in DOMAIN values |-> <<n, n, values[n]>>]
    IN  IF ez THEN SelectSeq(all, LAMBDA t : t[3] # 0) ELSE all

\* -------------------------------------- assembly: coordinate-format matrices

\* A sparse matrix is the sequence of its stored triplets <<row, col, value>>.
KeyOf(t) == <<t[1], t[2]>>

\* All keys in row-major order.
AKeys ==
    LET n == Cardinality(ADofs)
    IN  [k \in 1..(n * n) |-> <<((k - 1) \div n) + 1, ((k - 1) % n) + 1>>]

has_key(M, key) == \E i \in DOMAIN M : KeyOf(M[i]) = key

RECURSIVE coo_value(_, _)
\* The entry of the matrix at a key: the sum of the triplets stored for it.
coo_value(M, key) ==
    IF M = <<>> THEN 0
    ELSE (IF KeyOf(Head(M)) = key THEN Head(M)[3] ELSE 0) + coo_value(Tail(M), key)

\* M.todense()
todense(M) == [r \in ADofs |-> [c \in ADofs |-> coo_value(M, <<r, c>>)]]

\* K.eliminate_zeros(): the stored triplets whose value is zero are removed.
eliminate_zeros(M) == SelectSeq(M, LAMBDA t : t[3] # 0)

RECURSIVE last_value(_, _)
\* The value of the last triplet stored for a key.
last_value(M, key) ==
    IF KeyOf(M[Len(M)]) = key THEN M[Len(M)][3]
    ELSE last_value(SubSeq(M, 1, Len(M) - 1), key)

\* A faulty variant of sum_duplicates: above the diagonal the last triplet
\* of a key overwrites the earlier ones.
sum_duplicates_overwriting(M) ==
    LET present == SelectSeq(AKeys, LAMBDA k : has_key(M, k))
    IN  [i \in DOMAIN present |->
            <<present[i][1], present[i][2],
              IF present[i][1] < present[i][2] THEN last_value(M, present[i])
              ELSE coo_value(M, present[i])>>]

\* K.sum_duplicates(): one triplet per stored key, in row-major order, its
\* value the sum of the triplets of the key.
sum_duplicates(M) ==
    LET present == SelectSeq(AKeys, LAMBDA k : has_key(M, k))
    IN  [i \in DOMAIN present |->
            <<present[i][1], present[i][2], coo_value(M, present[i])>>]

\* A faulty variant of sparse_add: at a key both matrices store, the entry
\* of the second matrix replaces the entry of the first.
sparse_add_replacing(A, B) ==
    eliminate_zeros(sum_duplicates(
        SelectSeq(A, LAMBDA t : ~has_key(B, KeyOf(t))) \o B))

\* A + B of two sparse matrices: both are converted to compressed rows
\* (duplicates summed) and added key by key; sums equal to zero are not
\* stored.
sparse_add(A, B) == eliminate_zeros(sum_duplicates(A \o B))

RECURSIVE np_sum_coo(_)
\* np.sum(list of sparse matrices): the matrices added from the left; the
\* sum of a single matrix is that matrix, untouched.
np_sum_coo(mats) ==
    IF Len(mats) = 1 THEN mats[1]
    ELSE sparse_add(np_sum_coo(SubSeq(mats, 1, Len(mats) - 1)), mats[Len(mats)])

\* FemMesh.elastic_stiffness_matrix_coo, lines 147-154.
elastic_stiffness_matrix_coo(bl, ez, sd) ==
    LET K0 == np_sum_coo([b \in DOMAIN bl |->
                  celldata_elastic_stiffness_matrix_coo(bl[b])])
        K1 == IF ez THEN eliminate_zeros(K0) ELSE K0
    IN  IF sd THEN sum_duplicates(K1) ELSE K1

\* FemMesh.consistent_mass_matrix_coo, lines 220-245; d is the mass field of
\* the root pointdata, <<>> when the pointdata has no such field.
consistent_mass_matrix_coo(bl, d, ez, sd, distribute) ==
    LET M0 == np_sum_coo([b \in DOMAIN bl |->
                  celldata_consistent_mass_matrix_coo(bl[b])])
        M1 == IF d = <<>> THEN M0
              ELSE IF distribute
                   THEN sparse_add(M0, np_sum_coo([b \in DOMAIN bl |->
                            celldata_consistent_mass_matrix_coo_values(
                                bl[b], pull(bl[b], d))]))
                   ELSE sparse_add(M0, fem_nodal_mass_matrix_coo(d, ez))
        M2 == IF ez THEN eliminate_zeros(M1) ELSE M1
    IN  IF sd THEN sum_duplicates(M2) ELSE M2

\* ------------------------------------------------- assembly: the calls

CallElasticStiffness ==
    /\ a_pc = "idle"
    /\ \E ez, sd \in BOOLEAN :
        /\ a_call' = [fn |-> "elastic_stiffness_matrix_coo",
                      eliminate_zeros |-> ez, sum_duplicates |-> sd,
                      distribute |-> FALSE]
        /\ a_K' = elastic_stiffness_matrix_coo(a_blocks, ez, sd)
    /\ a_pc' = "returned"
    /\ UNCHANGED <<a_blocks, a_mass>>
    /\ UNCHANGED notA

CallConsistentMass ==
    /\ a_pc = "idle"
    /\ \E ez, sd, distribute \in BOOLEAN :
        /\ a_call' = [fn |-> "consistent_mass_matrix_coo",
                      eliminate_zeros |-> ez, sum_duplicates |-> sd,
                      distribute |-> distribute]
        /\ a_K' = consistent_mass_matrix_coo(a_blocks, a_mass, ez, sd, distribute)
    /\ a_pc' = "returned"
    /\ UNCHANGED <<a_blocks, a_mass>>
    /\ UNCHANGED notA

ANext ==
    \/ CallElasticStiffness
    \/ CallConsistentMass

\* Every mesh of up to MaxElems cells, each of any kind on any pair of
\* degrees of freedom, cut into blocks in every way.
Meshes ==
    LET Elems == { [conn |-> cn, Ke |-> k.Ke, Me |-> k.Me] :
                       cn \in Conns, k \in ElemKinds }
    IN  UNION { { cellblocks(es, cuts) : es \in [1..n -> Elems],
                                         cuts \in SUBSET (1..(n - 1)) } :
                n \in 1..MaxElems }

\* The mass field of the root pointdata: absent, or a mass per node.
NodalMasses == { <<>>, <<1, 0, 2>> }

AInit ==
    /\ a_pc = "idle"
    /\ a_blocks \in Meshes
    /\ a_mass \in NodalMasses
    /\ a_call = <<>>
    /\ a_K = <<>>

\* ------------------------------------------------ FemMesh: tree queries

\* What block._model can hold: nothing, a raw matrix (numpy.ndarray), a
\* model object with a stiffness_matrix method, or an object without one.
ModelValues == {"None", "ndarray", "model", "invalid"}

\* The trees of up to MaxTree blocks: block 1 is the root, the parent of
\* every other block is a block of smaller number.
Trees ==
    UNION { { par \in [1..n -> 0..(n - 1)] :
                /\ par[1] = 0
                /\ \A b \in 2..n : par[b] \in 1..(b - 1) } :
            n \in 1..MaxTree }

\* block.is_root()
is_root(par, b) == par[b] = 0

\* The fixity arrays of the root pointdata, one flag per degree of freedom.
Fixities == { <<TRUE, FALSE, FALSE>>, <<TRUE, FALSE, TRUE>> }

\* The `fixity` argument of penalty_matrix_coo: None (<<>>) or an array.
FixityArgs == { <<>>, <<TRUE, FALSE, FALSE>>, <<FALSE, TRUE, TRUE>> }

\* The stiffness added to the diagonal entry of a fixed degree of freedom.
PenaltyValue == 1000

\* fem_penalty_matrix_coo(values, eliminate_zeros, sum_duplicates): the
\* penalty on the diagonal entry of every degree of freedom flagged fixed.
fem_penalty_matrix_coo(values, ez, sd) ==
    LET all == [n \in DOMAIN values |->
                   <<n, n, IF values[n] THEN PenaltyValue ELSE 0>>]
        K1 == IF ez THEN eliminate_zeros(all) ELSE all
    IN  IF sd THEN sum_duplicates(K1) ELSE K1

\* FemMesh.penalty_matrix_coo, lines 272-275: line 272 assigns the fixity
\* of the root pointdata to the name of the argument, whatever was passed.
penalty_matrix_coo(fixity_arg, pd_fixity, ez, sd) ==
    LET values == pd_fixity
    IN  fem_penalty_matrix_coo(values, ez, sd)

\* block.material_stiffness_matrix() is called: line 473 starts to
\* evaluate block.model.
CallMaterialStiffness ==
    /\ m_pc = "idle"
    /\ \E b \in DOMAIN m_parent :
        /\ m_call' = [fn |-> "material_stiffness_matrix", block |-> b]
        /\ m_at' = b
    /\ m_steps' = 0
    /\ m_pc' = "walking"
    /\ UNCHANGED <<m_parent, m_model, m_fixity, m_result>>
    /\ UNCHANGED notM

\* A faulty variant of ModelStep: a block without a model of its own
\* answers with its own field instead of asking its parent.
ModelStepLocalOnly ==
    /\ m_pc = "walking"
    /\ m_result' = <<m_model[m_at], m_at>>
    /\ m_pc' = "resolved"
    /\ UNCHANGED <<m_at, m_steps>>
    /\ UNCHANGED <<m_parent, m_model, m_fixity, m_call>>
    /\ UNCHANGED notM

\* One evaluation of the model property (lines 451-462) at block m_at: the
\* block's own model if it is not None, the root's field (None) at the
\* root, else the model property of the parent.
ModelStep ==
    /\ m_pc = "walking"
    /\ IF m_model[m_at] # "None" \/ is_root(m_parent, m_at)
       THEN /\ m_result' = <<m_model[m_at], m_at>>
            /\ m_pc' = "resolved"
            /\ UNCHANGED <<m_at, m_steps>>
       ELSE /\ m_at' = m_parent[m_at]
            /\ m_steps' = m_steps + 1
            /\ UNCHANGED <<m_result, m_pc>>
    /\ UNCHANGED <<m_parent, m_model, m_fixity, m_call>>
    /\ UNCHANGED notM

\* Lines 473-480: a numpy array is returned as it is; of anything else the
\* stiffness_matrix() is returned, and every exception of that call (None
\* and objects without the method included) becomes a RuntimeError.
ReturnMaterialStiffness ==
    /\ m_pc = "resolved"
    /\ LET m == m_result
       IN  IF m[1] = "ndarray"
           THEN m_result' = m /\ m_pc' = "returned"
           ELSE IF m[1] = "model"
                THEN m_result' = <<"stiffness_matrix", m[2]>> /\ m_pc' = "returned"
                ELSE m_result' = <<"RuntimeError">> /\ m_pc' = "raised"
    /\ UNCHANGED <<m_parent, m_model, m_fixity, m_call, m_at, m_steps>>
    /\ UNCHANGED notM

\* mesh.penalty_matrix_coo(fixity, eliminate_zeros=.., sum_duplicates=..)
CallPenalty ==
    /\ m_pc = "idle"
    /\ \E arg \in FixityArgs, ez, sd \in BOOLEAN :
        /\ m_call' = [fn |-> "penalty_matrix_coo", fixity |-> arg,
                      eliminate_zeros |-> ez, sum_duplicates |-> sd]
        /\ m_result' = penalty_matrix_coo(arg, m_fixity, ez, sd)
    /\ m_pc' = "returned"
    /\ UNCHANGED <<m_parent, m_model, m_fixity, m_at, m_steps>>
    /\ UNCHANGED notM

MNext ==
    \/ CallMaterialStiffness
    \/ ModelStep
    \/ ReturnMaterialStiffness
    \/ CallPenalty

\* Every tree, every assignment of models to its blocks, every fixity.
MInit ==
    /\ m_pc = "idle"
    /\ m_parent \in Trees
    /\ m_model \in [DOMAIN m_parent -> ModelValues]
    /\ m_fixity \in Fixities
    /\ m_call = <<>>
    /\ m_at = 0
    /\ m_steps = 0
    /\ m_result = <<>>

\* ------------------------------------------------ parallel element kernels

\* mindlinplate.py: _NSTRE_, _NDOFN_, _NHOOKE_
PlateNSTRE == 5
PlateNDOFN == 3
PlateNHOOKE == 5
\* mindlinshell.py: _NSTRE_, _NDOFN_, _NHOOKE_
ShellNSTRE == 8
ShellNDOFN == 6
ShellNHOOKE == 5

\* Quadrature points (nP = 2) and nodes of an element (nN = 2).
KGauss == 0..1
KNodes == 0..1

\* The physical coordinate z through the thickness.
Zs == {-1, 0, 1}

\* The parallel kernels, by what they compute.
Kernels ==
    [ B |-> { "strain_displacement_matrix_mindlin_plate",
              "strain_displacement_matrix_mindlin_shell" },
      strain |-> { "material_strains_mindlin_plate",
                   "material_strains_mindlin_shell" },
      stiffness |-> { "model_stiffness_iso_homg_mindlin_plate",
                      "model_stiffness_iso_homg_mindlin_shell" },
      model |-> { "model_strains", "stresses_from_strains" } ]

\* _NSTRE_, _NDOFN_ and _NHOOKE_ of the module of a kernel.
dims(fn) ==
    IF fn \in { "strain_displacement_matrix_mindlin_plate",
                "material_strains_mindlin_plate",
                "model_stiffness_iso_homg_mindlin_plate" }
    THEN [NSTRE |-> PlateNSTRE, NDOFN |-> PlateNDOFN, NHOOKE |-> PlateNHOOKE]
    ELSE [NSTRE |-> ShellNSTRE, NDOFN |-> ShellNDOFN, NHOOKE |-> ShellNHOOKE]

\* The calls of the kernels: the kernel, the number of elements, and what
\* selects its arguments (shear: the Jacobians are sheared; z; width: the
\* number of components of model_strains, or of rows and columns of C in
\* the model stiffness kernels).  The strains of a plate have
\* _NSTRE_ = 5 components; the strains of a shell have _NSTRE_ = 8 (the
\* rows of its strain-displacement operator), of which a caller may pass
\* the five bending and shear components alone.  The material matrix C has
\* _NHOOKE_ = 5 rows; a caller of the shell kernel may also pass a matrix
\* of the size of the result, _NSTRE_ = 8.
KernelCalls ==
    { [fn |-> f, nE |-> n, shear |-> s, z |-> 0, width |-> 0] :
          f \in Kernels.B, n \in 1..MaxNE, s \in 0..1 }
    \cup { [fn |-> "material_strains_mindlin_plate", nE |-> n, shear |-> 0,
            z |-> z, width |-> PlateNSTRE] : n \in 1..MaxNE, z \in Zs }
    \cup { [fn |-> "material_strains_mindlin_shell", nE |-> n, shear |-> 0,
            z |-> z, width |-> w] :
               n \in 1..MaxNE, z \in Zs, w \in {ShellNSTRE - 3, ShellNSTRE} }
    \cup { [fn |-> "model_stiffness_iso_homg_mindlin_plate", nE |-> n,
            shear |-> 0, z |-> 0, width |-> PlateNHOOKE] : n \in 1..MaxNE }
    \cup { [fn |-> "model_stiffness_iso_homg_mindlin_shell", nE |-> n,
            shear |-> 0, z |-> 0, width |-> w] :
               n \in 1..MaxNE, w \in {ShellNHOOKE, ShellNSTRE} }
    \cup { [fn |-> f, nE |-> n, shear |-> 0, z |-> 0, width |-> 0] :
               f \in Kernels.model, n \in 1..MaxNE }

\* The arrays passed to the kernels, indexed from 0 as in the source:
\* shp[iP, i], dshp[iP][i, k], jac[iE, iP] (the identity, or sheared element
\* by element; its determinant is 1), t[i], model_strains[iE, iP, k],
\* C[i][r, cl] (width x width in the model stiffness kernels, 5 x 5 in
\* stresses_from_strains), and for model_strains and stresses_from_strains B[iE, iP],
\* esol[iE] = element_dof_solution_bulk(dofsol1d, gnum)[iE] (neighbouring
\* elements share a degree of freedom) and strains[iE, iP].
args(c) ==
    LET E == 0..(c.nE - 1)
        nC == IF c.fn \in Kernels.stiffness THEN c.width ELSE 5
    IN  [ shp |-> [p \in KGauss |-> [i \in KNodes |-> 1 + i + 2 * p]],
          dshp |-> [p \in KGauss |-> [i \in KNodes |-> [k \in 0..1 |->
                       1 + 2 * i + k + 3 * p]]],
          jac |-> [e \in E |-> [p \in KGauss |-> [r \in 0..1 |-> [cl \in 0..1 |->
                       IF r = cl THEN 1
                       ELSE IF r = 0 THEN c.shear * (1 + e + p) ELSE 0]]]],
          t |-> [e \in E |-> 2 * (e + 1)],
          model_strains |-> [e \in E |-> [p \in KGauss |->
                       [k \in 0..(c.width - 1) |-> 1 + k + e + p]]],
          C |-> [e \in E |-> [r \in 0..(nC - 1) |-> [cl \in 0..(nC - 1) |->
                       IF r = cl THEN 4 + e + r ELSE 1]]],
          B |-> [e \in E |-> [p \in KGauss |-> [r \in 0..1 |-> [cl \in 0..1 |->
                       1 + r + 2 * cl + e + p]]]],
          esol |-> [e \in E |-> [cl \in 0..1 |-> 1 + e + cl]],
          strains |-> [e \in E |-> [p \in KGauss |-> [k \in 0..4 |->
                       1 + k + e + p]]] ]

\* np.linalg.inv of a 2 x 2 matrix whose determinant is 1 or -1.
inv(J) ==
    LET det == J[0][0] * J[1][1] - J[0][1] * J[1][0]
    IN  [r \in 0..1 |-> [cl \in 0..1 |->
            det * (IF r = cl THEN J[1 - r][1 - cl] ELSE -J[r][cl])]]

\* gdshp = dshp[iP] @ np.linalg.inv(jac[iE, iP]): an array of its own in
\* every iteration (iE, iP).
gdshp(c, iE, iP) ==
    LET Ji == inv(args(c).jac[iE][iP])
        d0 == args(c).dshp[iP]
    IN  [i \in KNodes |-> [d \in 0..1 |-> d0[i][0] * Ji[0][d] + d0[i][1] * Ji[1][d]]]

RECURSIVE dot(_, _, _)
\* a @ b for two vectors of n components
dot(a, b, n) == IF n = 0 THEN 0 ELSE a[n - 1] * b[n - 1] + dot(a, b, n - 1)

\* The index set of the array the kernel allocates and returns.
Locs(c) ==
    LET E == 0..(c.nE - 1)
        d == dims(c.fn)
    IN  CASE c.fn \in Kernels.B ->
               { <<e, p, r, cl>> : e \in E, p \in KGauss, r \in 0..(d.NSTRE - 1),
                     cl \in 0..(Cardinality(KNodes) * d.NDOFN - 1) }
          [] c.fn \in Kernels.strain ->
               { <<e, p, k>> : e \in E, p \in KGauss, k \in 0..(d.NHOOKE - 1) }
          [] c.fn \in Kernels.stiffness ->
               { <<e, r, cl>> : e \in E, r \in 0..(c.width - 1),
                     cl \in 0..(c.width - 1) }
          [] c.fn = "model_strains" ->
               { <<e, p, r>> : e \in E, p \in KGauss, r \in 0..1 }
          [] OTHER ->
               { <<e, p, r>> : e \in E, p \in KGauss, r \in 0..4 }

\* What the kernel does before its parallel loop: np.zeros, and in the
\* material strains res[:, :, :3] = model_strains[:, :, :3] * z.  The
\* material strains and the model stiffness are rationals <<numerator,
\* denominator>>, the other arrays hold integers.
prologue(c) ==
    [loc \in Locs(c) |->
        IF c.fn \in Kernels.strain
        THEN IF loc[3] < 3
             THEN <<args(c).model_strains[loc[1]][loc[2]][loc[3]] * c.z, 1>>
             ELSE <<0, 1>>
        ELSE IF c.fn \in Kernels.stiffness THEN <<0, 1>> ELSE 0]

\* The iterations of the parallel loops (prange), all levels of the nest.
iterations(c) ==
    LET E == 0..(c.nE - 1)
    IN  CASE c.fn \in Kernels.B -> { <<e, p, i>> : e \in E, p \in KGauss, i \in KNodes }
          [] c.fn \in Kernels.model -> { <<e, p>> : e \in E, p \in KGauss }
          [] OTHER -> { <<e>> : e \in E }

\* --- the writes of one iteration, in program order, as <<location, value>>

\* A faulty variant of plate_table: the statement of line 32 writes row 0.
plate_table_row0(i, g, s) ==
    << <<0, 2 + i * PlateNDOFN, g[i][0]>>,
       <<1, 1 + i * PlateNDOFN, -g[i][1]>>,
       <<2, 1 + i * PlateNDOFN, -g[i][0]>>,
       <<2, 2 + i * PlateNDOFN, g[i][1]>>,
       <<3, 0 + i * PlateNDOFN, g[i][0]>>,
       <<0, 2 + i * PlateNDOFN, s>>,
       <<4, 0 + i * PlateNDOFN, g[i][1]>>,
       <<4, 1 + i * PlateNDOFN, -s>> >>

\* mindlinplate.py lines 27-34: <<row, column, value>> for node i, with
\* g = gdshp and s = shp[iP, i].
plate_table(i, g, s) ==
    << <<0, 2 + i * PlateNDOFN, g[i][0]>>,
       <<1, 1 + i * PlateNDOFN, -g[i][1]>>,
       <<2, 1 + i * PlateNDOFN, -g[i][0]>>,
       <<2, 2 + i * PlateNDOFN, g[i][1]>>,
       <<3, 0 + i * PlateNDOFN, g[i][0]>>,
       <<3, 2 + i * PlateNDOFN, s>>,
       <<4, 0 + i * PlateNDOFN, g[i][1]>>,
       <<4, 1 + i * PlateNDOFN, -s>> >>

\* mindlinshell.py lines 26-37
shell_table(i, g, s) ==
    << <<0, 0 + i * ShellNDOFN, g[i][0]>>,
       <<1, 1 + i * ShellNDOFN, g[i][1]>>,
       <<2, 0 + i * ShellNDOFN, g[i][1]>>,
       <<2, 1 + i * ShellNDOFN, g[i][0]>>,
       <<3, 4 + i * ShellNDOFN, g[i][0]>>,
       <<4, 3 + i * ShellNDOFN, -g[i][1]>>,
       <<5, 3 + i * ShellNDOFN, -g[i][0]>>,
       <<5, 4 + i * ShellNDOFN, g[i][1]>>,
       <<6, 2 + i * ShellNDOFN, g[i][0]>>,
       <<6, 4 + i * ShellNDOFN, s>>,
       <<7, 2 + i * ShellNDOFN, g[i][1]>>,
       <<7, 3 + i * ShellNDOFN, -s>> >>

\* strain_displacement_matrix_mindlin_plate / _shell, iteration (iE, iP, i)
B_writes(c, it) ==
    LET g == gdshp(c, it[1], it[2])
        s == args(c).shp[it[2]][it[3]]
        tab == IF c.fn = "strain_displacement_matrix_mindlin_plate"
               THEN plate_table(it[3], g, s) ELSE shell_table(it[3], g, s)
    IN  [k \in DOMAIN tab |-> << <<it[1], it[2], tab[k][1], tab[k][2]>>, tab[k][3] >>]

\* material_strains_mindlin_plate / _shell, iteration i (line 46 / 50):
\* res[i, :, 3:] = (5 / 4) * (1 - 4 * (z / t[i]) ** 2) * model_strains[i, :, 3:]
material_strains_writes(c, it) ==
    LET n == dims(c.fn).NHOOKE - 3
        t == args(c).t[it[1]]
    IN  [j \in 1..(Cardinality(KGauss) * n) |->
            LET p == (j - 1) \div n
                k == 3 + ((j - 1) % n)
            IN  << <<it[1], p, k>>,
                   <<5 * (t * t - 4 * c.z * c.z) * args(c).model_strains[it[1]][p][k],
                     4 * t * t>> >>]

\* The slice assignments of the body of a model stiffness kernel, in
\* program order, for an n x n matrix C[i] and thickness t: the block of
\* res assigned (l), the block of C read (r), both as <<first index,
\* length>> of the slice a:b clipped to n as numpy clips it, and the
\* factor (f).
\* mindlinplate.py lines 64-65:
\*     res[i, :3, :3] = C[i, :3, :3] * (t[i] ** 3 / 12)
\*     res[i, 3:, 3:] = C[i, 3:, 3:] * (t[i] * 5 / 6)
\* mindlinshell.py lines 68-70:
\*     res[i, :3, :3] = C[i, :3, :3] * t[i]
\*     res[i, 3:6, 3:6] = C[i, :3, :3] * (t[i] ** 3 / 12)
\*     res[i, 6:, 6:] = C[i, 3:, 3:] * (t[i] * 5 / 6)
stiffness_statements(fn, n, t) ==
    LET Min(x, y) == IF x < y THEN x ELSE y
        slice(a, b) == <<Min(a, n), IF Min(b, n) > Min(a, n)
                                    THEN Min(b, n) - Min(a, n) ELSE 0>>
    IN  IF fn = "model_stiffness_iso_homg_mindlin_plate"
        THEN << [l |-> slice(0, 3), r |-> slice(0, 3), f |-> <<t * t * t, 12>>],
                [l |-> slice(3, n), r |-> slice(3, n), f |-> <<5 * t, 6>>] >>
        ELSE << [l |-> slice(0, 3), r |-> slice(0, 3), f |-> <<t, 1>>],
                [l |-> slice(3, 6), r |-> slice(0, 3), f |-> <<t * t * t, 12>>],
                [l |-> slice(6, n), r |-> slice(3, n), f |-> <<5 * t, 6>>] >>

\* The writes of iteration i of a model stiffness kernel: those of its
\* statements up to the first whose two sides differ in shape (no side
\* here has length 1, so nothing is broadcast).
model_stiffness_writes(c, it) ==
    LET i == it[1]
        Ci == args(c).C[i]
        ss == stiffness_statements(c.fn, c.width, args(c).t[i])
        done == { j \in DOMAIN ss : \A m \in 1..j : ss[m].l[2] = ss[m].r[2] }
        block(st) ==
            [j \in 1..(st.l[2] * st.l[2]) |->
                LET r == (j - 1) \div st.l[2]
                    cl == (j - 1) % st.l[2]
                IN  << <<i, st.l[1] + r, st.l[1] + cl>>,
                       <<Ci[st.r[1] + r][st.r[1] + cl] * st.f[1], st.f[2]>> >>]
    IN  Concat([j \in 1..Cardinality(done) |-> block(ss[j])])

\* A faulty variant of model_kernel_writes: the row of the first
\* quadrature point is written for every quadrature point.
model_kernel_writes_shared(c, it) ==
    LET a == args(c)
    IN  IF c.fn = "model_strains"
        THEN [j \in 1..2 |->
                << <<it[1], 0, j - 1>>,
                   dot(a.B[it[1]][it[2]][j - 1], a.esol[it[1]], 2) >>]
        ELSE [j \in 1..5 |->
                << <<it[1], 0, j - 1>>,
                   dot(a.C[it[1]][j - 1], a.strains[it[1]][it[2]], 5) >>]

\* model_strains (line 18): res[iE, iP, :] = B[iE, iP] @ esol[iE];
\* stresses_from_strains (line 28): res[iE, iP, :] = C[iE] @ strains[iE, iP]
model_kernel_writes(c, it) ==
    LET a == args(c)
    IN  IF c.fn = "model_strains"
        THEN [j \in 1..2 |->
                << <<it[1], it[2], j - 1>>,
                   dot(a.B[it[1]][it[2]][j - 1], a.esol[it[1]], 2) >>]
        ELSE [j \in 1..5 |->
                << <<it[1], it[2], j - 1>>,
                   dot(a.C[it[1]][j - 1], a.strains[it[1]][it[2]], 5) >>]

\* Whether the iteration ends in a slice assignment whose two sides have
\* different shapes: model_strains[i, :, 3:] has width - 3 columns for the
\* _NHOOKE_ - 3 of res[i, :, 3:] (mindlinshell.py line 50); a statement
\* of a model stiffness kernel assigns a block of C to a block of res of
\* another size, res having the shape of C (mindlinshell.py lines 66-70).
raises(c) ==
    \/ c.fn \in Kernels.strain /\ c.width - 3 # dims(c.fn).NHOOKE - 3
    \/ /\ c.fn \in Kernels.stiffness
       /\ LET ss == stiffness_statements(c.fn, c.width, 1)
          IN  \E j \in DOMAIN ss : ss[j].l[2] # ss[j].r[2]

\* What a slice assignment of mismatched shapes raises in compiled code.
ShapeErrors == {"ValueError", "AssertionError"}

\* The writes the iteration makes (up to the statement that raises).
writes(c, it) ==
    CASE c.fn \in Kernels.B -> B_writes(c, it)
      [] c.fn \in Kernels.strain ->
            IF raises(c) THEN <<>> ELSE material_strains_writes(c, it)
      [] c.fn \in Kernels.stiffness -> model_stiffness_writes(c, it)
      [] OTHER -> model_kernel_writes(c, it)

\* The argument arrays the iteration reads, as <<array, index prefix>>.
reads(c, it) ==
    CASE c.fn \in Kernels.B ->
            { <<"dshp", <<it[2]>> >>, <<"jac", <<it[1], it[2]>> >>,
              <<"shp", <<it[2], it[3]>> >> }
      [] c.fn \in Kernels.strain -> { <<"model_strains", it>>, <<"t", it>> }
      [] c.fn \in Kernels.stiffness -> { <<"C", it>>, <<"t", it>> }
      [] c.fn = "model_strains" -> { <<"B", it>>, <<"esol", <<it[1]>> >> }
      [] OTHER -> { <<"C", <<it[1]>> >>, <<"strains", it>> }

RECURSIVE apply_writes(_, _)
\* The array after the writes ws, applied in order.
apply_writes(res, ws) ==
    IF ws = <<>> THEN res
    ELSE apply_writes([res EXCEPT ![Head(ws)[1]] = Head(ws)[2]], Tail(ws))

\* --- the steps

\* The kernel is entered: the output array is allocated and the parallel
\* loop is reached.
KCall ==
    /\ k_pc = "idle"
    /\ k_res' = prologue(k_call)
    /\ k_todo' = iterations(k_call)
    /\ k_pc' = "loop"
    /\ UNCHANGED <<k_call, k_log, k_error>>
    /\ UNCHANGED notK

\* One iteration of the parallel loop runs, whichever the scheduler picks;
\* its writes go to B in the strain-displacement kernels and to res in the
\* others.
KIter ==
    /\ k_pc = "loop"
    /\ \E it \in k_todo :
        LET ws == writes(k_call, it)
            out == IF k_call.fn \in Kernels.B THEN "B" ELSE "res"
            entry == [it |-> it,
                      w |-> [k \in DOMAIN ws |-> <<out, ws[k][1]>>],
                      r |-> reads(k_call, it)]
        IN  /\ k_log' = k_log \cup {entry}
            /\ IF raises(k_call)
               THEN /\ k_error' \in ShapeErrors
                    /\ k_pc' = "raised"
                    /\ k_res' = <<>>
                    /\ k_todo' = {}
               ELSE /\ k_res' = apply_writes(k_res, ws)
                    /\ k_todo' = k_todo \ {it}
                    /\ UNCHANGED <<k_pc, k_error>>
    /\ UNCHANGED k_call
    /\ UNCHANGED notK

\* Every iteration has run: the array is returned.
KReturn ==
    /\ k_pc = "loop"
    /\ k_todo = {}
    /\ k_pc' = "returned"
    /\ UNCHANGED <<k_call, k_res, k_todo, k_log, k_error>>
    /\ UNCHANGED notK

KNext ==
    \/ KCall
    \/ KIter
    \/ KReturn

KInit ==
    /\ k_pc = "idle"
    /\ k_call \in KernelCalls
    /\ k_res = <<>>
    /\ k_todo = {}
    /\ k_log = {}
    /\ k_error = ""

\* ------------------------------------------- LineMesh and BernoulliFrame

\* FemMesh.NDOFN, which LineMesh inherits (BernoulliFrame sets the same).
LineNDOFN == 6

\* The lengths an axis of an array takes here.
Dims == {1, 2, LineNDOFN}

\* The values of an array argument: None, an object that is no
\* numpy.ndarray (a list), or an ndarray of some shape.
Arrays ==
    { [kind |-> k, shape |-> <<>>] : k \in {"None", "list"} }
    \cup { [kind |-> "ndarray", shape |-> sh] :
               sh \in UNION { [1..n -> Dims] : n \in 1..MaxRank } }

\* The calls: LineMesh(..., areas, connectivity, model, section), building
\* a mesh with or without celldata, and BernoulliFrame.from_dict(d_in),
\* where nC = len(d_in['cells']) and topo = data['topo'] of the metadata.
LineCalls ==
    { [fn |-> "__init__", connectivity |-> cn, model |-> m, section |-> s,
       areas |-> a, celldata |-> cd, topo |-> [kind |-> "None", shape |-> <<>>],
       nC |-> 0] :
          cn \in Arrays, m \in {"None", "Section", "ndarray"},
          s \in {"None", "BeamSection"},
          a \in { x \in Arrays : x.kind # "list" /\ Len(x.shape) <= 2 },
          cd \in BOOLEAN }
    \cup { [fn |-> "from_dict", connectivity |-> [kind |-> "None", shape |-> <<>>],
            model |-> "None", section |-> "None",
            areas |-> [kind |-> "None", shape |-> <<>>], celldata |-> TRUE,
            topo |-> tp, nC |-> n] :
               tp \in { x \in Arrays : Len(x.shape) <= 2 }, n \in Dims }

\* LineMesh.__init__, lines 33-38: the checks of connectivity.  Line 36
\* reads nE, a local variable of the function that is assigned only at
\* line 51, so an array that passes line 35 raises UnboundLocalError.
LmCheck ==
    /\ n_pc = "idle"
    /\ n_call.fn = "__init__"
    /\ LET cn == n_call.connectivity
       IN  IF cn.kind = "ndarray"
           THEN /\ n_pc' = "raised"
                /\ n_result' = IF Len(cn.shape) # 3
                               THEN <<"AssertionError">>
                               ELSE <<"UnboundLocalError">>
           ELSE /\ n_pc' = "checked"
                /\ UNCHANGED n_result
    /\ UNCHANGED n_call
    /\ UNCHANGED notN

\* LineMesh.__init__, lines 40-48: the section is wrapped and replaces the
\* model by its stiffness matrix, and the constructor of FemMesh is called.
LmSuper ==
    /\ n_pc = "checked"
    /\ LET section == IF n_call.section = "None" /\ n_call.model = "Section"
                      THEN "BeamSection" ELSE n_call.section
           mdl == IF section = "BeamSection"
                  THEN "section.model_stiffness_matrix()" ELSE n_call.model
       IN  n_result' = [section |-> section, model |-> mdl,
                        connectivity |-> n_call.connectivity,
                        areas |-> "unset"]
    /\ n_pc' = "constructed"
    /\ UNCHANGED n_call
    /\ UNCHANGED notN

\* LineMesh.__init__, lines 50-61: the areas of the cells are stored.
LmAreas ==
    /\ n_pc = "constructed"
    /\ IF ~n_call.celldata
       THEN /\ n_pc' = "returned"
            /\ UNCHANGED n_result
       ELSE IF n_call.areas.kind = "None"
       THEN /\ n_pc' = "returned"
            /\ n_result' = [n_result EXCEPT !.areas =
                               IF n_result.section = "BeamSection"
                               THEN "np.full(nE, section.A)"
                               ELSE "np.ones(nE)"]
       ELSE IF Len(n_call.areas.shape) # 1
       THEN /\ n_pc' = "raised"
            /\ n_result' = <<"AssertionError">>
       ELSE /\ n_pc' = "returned"
            /\ n_result' = [n_result EXCEPT !.areas = "areas"]
    /\ UNCHANGED n_call
    /\ UNCHANGED notN

\* BernoulliFrame.from_dict, lines 198-227.  cdata holds the entries of the
\* metadata that are arrays with one row per cell (lines 208-210), so
\* cdata['topo'] (line 216) raises KeyError for any other topology; the
\* second test of the node count (line 221) repeats the first.
FromDict ==
    /\ n_pc = "idle"
    /\ n_call.fn = "from_dict"
    /\ LET topo == n_call.topo
           nNE == topo.shape[Len(topo.shape)]
       IN  IF topo.kind # "ndarray" \/ topo.shape[1] # n_call.nC
           THEN /\ n_pc' = "raised"
                /\ n_result' = <<"KeyError">>
           ELSE IF nNE = 2
           THEN /\ n_pc' = "celltype"
                /\ n_result' = <<"B2">>
           ELSE IF nNE = 2
           THEN /\ n_pc' = "celltype"
                /\ n_result' = <<"B3">>
           ELSE /\ n_pc' = "raised"
                /\ n_result' = <<"NotImplementedError">>
    /\ UNCHANGED n_call
    /\ UNCHANGED notN

\* BernoulliFrame.from_dict, lines 225-233: the cells and the mesh are
\* built, LineMesh(pd, cd, model=...) without connectivity, and returned.
FromDictReturn ==
    /\ n_pc = "celltype"
    /\ n_pc' = "returned"
    /\ UNCHANGED <<n_call, n_result>>
    /\ UNCHANGED notN

NNext ==
    \/ LmCheck
    \/ LmSuper
    \/ LmAreas
    \/ FromDict
    \/ FromDictReturn

NInit ==
    /\ n_pc = "idle"
    /\ n_call \in LineCalls
    /\ n_result = <<>>

\* ------------------------------------------------------ specifications

Next == HNext

\* homogenize on rectangular cells, with every mix of blocks.
Spec == Init /\ [][Next]_vars

\* homogenize, once, on every free-form point set.
SpecAnchor == AnchorInit /\ [][Next]_vars

\* load_vector on every mix of block load outcomes.
LoadInit == HIdle /\ LInit /\ AIdle /\ MIdle /\ KIdle /\ NIdle

SpecLoad == LoadInit /\ [][LNext]_vars

\* The assembly of the stiffness and of the mass matrix of every mesh.
AsmInit == HIdle /\ LIdle /\ AInit /\ MIdle /\ KIdle /\ NIdle

SpecAsm == AsmInit /\ [][ANext]_vars

\* The queries of every tree of blocks.
TreeInit == HIdle /\ LIdle /\ AIdle /\ MInit /\ KIdle /\ NIdle

SpecTree == TreeInit /\ [][MNext]_vars

\* Every kernel call, its iterations in every order.
KernelInit == HIdle /\ LIdle /\ AIdle /\ MIdle /\ KInit /\ NIdle

SpecKernel == KernelInit /\ [][KNext]_vars

\* Every construction of a LineMesh and every from_dict.
LineInit == HIdle /\ LIdle /\ AIdle /\ MIdle /\ KIdle /\ NInit

SpecLine == LineInit /\ [][NNext]_vars


\* ------------------------------------------------------------- properties

AllBlocks == DOMAIN blocks

\* The spellings of the two model names homogenize knows.
MRNames == { <<a, b>> : a \in {"m", "M"}, b \in {"r", "R"} }
KLNames == { <<a, b>> : a \in {"k", "K"}, b \in {"l", "L"} }

\* The periodicity constraint of the running invocation is the last entry
\* of the structure's constraint list.
PeriodicityInstalled ==
    /\ Len(constraints) = Len(pre.constraints) + 1
    /\ constraints[Len(constraints)] = periodic_essential_ebc(<<0, 1>>)
    /\ SubSeq(constraints, 1, Len(pre.constraints)) = pre.constraints

\* C1: in an invocation of homogenize that returns a result the static
\* solve is invoked exactly once; at the moment it is invoked the nodal
\* loads are zeroed (NSTRE load cases), the anchoring fixity is written, the
\* periodicity constraint is in the constraint list and every block holds
\* its strain loads; recovery and combination run only after that solve has
\* returned, and nothing is recovered or returned before it.
C1_SolveOnceAfterSetup ==
    /\ pc = "solve" =>
          /\ solveCount = 0
          /\ loads.zero /\ loads.nrhs = NSTRE /\ NSTRE \in {6, 8}
          /\ fixity = nodal_fixity(points, NDOFN)
          /\ PeriodicityInstalled
          /\ \A b \in AllBlocks : strain_loads[b] # 0
    /\ pc \in {"clear", "forces", "combine", "returned"} =>
          /\ solveCount = 1
          /\ dofsol.call = callsLeft
          /\ dofsol.nrhs = NSTRE
    /\ pc \in {"setup", "strain", "append", "solve"} =>
          /\ solveCount = 0
          /\ hooke = <<>> /\ hooke_avg = <<>> /\ result = <<>>
    /\ pc = "returned" <=> (pc # "idle" /\ result # <<>>)

\* C1, witness: the second invocation on a structure has returned a result
\* after its one solve.
C1_Witness ==
    /\ pc = "returned"
    /\ solveCount = 1
    /\ callsLeft = 0
    /\ result # <<>>

\* C2 as stated: at the moment the forces of any block are recovered no
\* block of the mesh holds strain loads, and when homogenize returns every
\* block's strain_loads is None.
C2_Original ==
    /\ pc = "forces" => \A b \in AllBlocks : strain_loads[b] = 0
    /\ pc = "returned" => \A b \in AllBlocks : strain_loads[b] = 0

\* C2, amended: at the moment the forces of a block are recovered that
\* block and the blocks before it hold no strain loads, and the blocks after
\* it still hold theirs; when homogenize returns every block's strain_loads
\* is None.
C2_ClearedBlockByBlock ==
    /\ pc = "forces" =>
          /\ \A b \in AllBlocks : b <= ib => strain_loads[b] = 0
          /\ \A b \in AllBlocks : b > ib => strain_loads[b] = NSTRE
    /\ pc = "returned" => \A b \in AllBlocks : strain_loads[b] = 0

\* C2, witness: the forces of the first of several blocks are being
\* recovered.
C2_Witness ==
    /\ pc = "forces"
    /\ ib = 1
    /\ Len(blocks) > 1
    /\ strain_loads[1] = 0

\* C3: homogenize with a model name that is no spelling of 'MR' or 'KL'
\* fails before any numerical work: it ends with an exception, and the
\* loads, the fixity, the strain loads and the constraint list are as they
\* were when it was called, and the solve has not been invoked.
C3_UnknownModelFailsEarly ==
    (pc \notin {"idle", "setup"} /\ model \notin (MRNames \cup KLNames)) =>
        /\ pc = "raised"
        /\ error # ""
        /\ result = <<>>
        /\ loads = pre.loads
        /\ fixity = pre.fixity
        /\ strain_loads = pre.strain_loads
        /\ constraints = pre.constraints
        /\ solveCount = 0

\* C3, witness: the call with the name 'ML' has failed.
C3_Witness ==
    /\ pc = "raised"
    /\ model = <<"M", "L">>
    /\ error = "UnboundLocalError"

\* C4 as stated: when homogenize fails on a block whose NDIM is neither 2
\* nor 3, the nodal loads and the fixity of the mesh are unmodified and no
\* block has had strain loads written.
C4_Original ==
    (pc = "raised" /\ error = "NotImplementedError") =>
        /\ loads = pre.loads
        /\ fixity = pre.fixity
        /\ strain_loads = pre.strain_loads

FixityInstalled == NSTRE # 0 /\ pc \notin {"idle", "setup"}

FixedDofs(p) == {d \in Dofs(NDOFN) : fixity[p][d]}

\* C6 as stated: the point nearest the centroid is fixed in every degree of
\* freedom, two further points have exactly one fixed degree of freedom
\* each, and every other degree of freedom is free.
C6_Original ==
    FixityInstalled =>
        LET ic == AnchorCenter(points)
        IN  /\ FixedDofs(ic) = Dofs(NDOFN)
            /\ \E p1, p2 \in DOMAIN points :
                  /\ p1 # p2 /\ p1 # ic /\ p2 # ic
                  /\ Cardinality(FixedDofs(p1)) = 1
                  /\ Cardinality(FixedDofs(p2)) = 1
                  /\ \A p \in DOMAIN points \ {ic, p1, p2} : FixedDofs(p) = {}

\* C6, amended: the fixity array fixes degrees of freedom 0, 1, 2 (the
\* translations) of the point nearest the centroid, degrees of freedom 1 and
\* 2 of the point nearest [xmax, 0, 0] and degree of freedom 2 of the point
\* nearest [0, ymax, 0], and leaves every other degree of freedom free.
C6_ThreeTwoOne ==
    FixityInstalled =>
        LET ic == AnchorCenter(points)
            ix == AnchorX(points)
            iy == AnchorY(points)
        IN  \A p \in DOMAIN points : \A d \in Dofs(NDOFN) :
                fixity[p][d] <=>
                    \/ p = ic /\ d \in {0, 1, 2}
                    \/ p = ix /\ d \in {1, 2}
                    \/ p = iy /\ d = 2

\* C6, witness: the fixity is installed on a mesh with six degrees of
\* freedom per node whose three anchoring points are three different points.
C6_Witness ==
    /\ FixityInstalled
    /\ NDOFN = 6
    /\ Cardinality({AnchorCenter(points), AnchorX(points), AnchorY(points)}) = 3
    /\ FixedDofs(AnchorX(points)) = {1, 2}

OnBoundary(pts, p) ==
    LET b == bounds(pts)
    IN  X(p) \in {b.xmin, b.xmax} \/ Y(p) \in {b.ymin, b.ymax}

\* C7 as stated: for a point set with positive bounding-box area the three
\* anchoring points are pairwise distinct, and the points nearest
\* [xmax, 0, 0] and [0, ymax, 0] lie on the boundary of the bounding box.
C7_Original ==
    (FixityInstalled /\ area(points) > 0) =>
        /\ Cardinality({AnchorCenter(points), AnchorX(points), AnchorY(points)}) = 3
        /\ OnBoundary(points, points[AnchorX(points)])
        /\ OnBoundary(points, points[AnchorY(points)])

RECURSIVE MatSumOver(_, _, _)
\* The sum of kernel(blocks[b], n) over the first k blocks.
MatSumOver(kernel(_, _), k, n) ==
    IF k = 0 THEN ZeroMat(n)
    ELSE MatAdd(MatSumOver(kernel, k - 1, n), kernel(blocks[k], n))

\* Whether (i, j) lies in the block [6:8, 6:8].
InShearBlock(i, j) == i \in 6..7 /\ j \in 6..7

\* Whether M is an n x n matrix.
IsMat(M, n) == DOMAIN M = Dofs(n) /\ \A i \in Dofs(n) : DOMAIN M[i] = Dofs(n)

\* C8 as stated: the returned matrix is (weighted average of the block
\* matrices) - (stress response) / area, except that for the 8-component
\* model the block [6:8, 6:8] is 5/6 of the stress-response matrix as
\* accumulated, before any division by the area.
C8_Original ==
    pc = "returned" =>
        LET acc == MatSumOver(stress_response, Len(blocks), NSTRE)
            avg == MatSumOver(avg_hooke, Len(blocks), NSTRE)
            a == area(points)
        IN  /\ IsMat(result, NSTRE)
            /\ \A i, j \in Dofs(NSTRE) :
                  IF NSTRE = 8 /\ InShearBlock(i, j)
                  THEN RatEq(result[i][j], RatMulDiv(acc[i][j], 5, 6))
                  ELSE RatEq(result[i][j],
                             RatSub(RatDiv(avg[i][j], a), RatDiv(acc[i][j], a)))

\* C8, amended: the returned matrix is (sum of the measure-weighted block
\* matrices) / area - (accumulated stress response) / area; for the
\* 8-component model ('MR', ABDS()) the block [6:8, 6:8] is instead 5/6 of
\* the accumulated stress response divided by the area; for the 6-component
\* model ('KL', ABD()) no block is overridden.
C8_ShearFromDividedResponse ==
    pc = "returned" =>
        LET acc == MatSumOver(stress_response, Len(blocks), NSTRE)
            avg == MatSumOver(avg_hooke, Len(blocks), NSTRE)
            a == area(points)
        IN  /\ model \in MRNames => NSTRE = 8
            /\ model \in KLNames => NSTRE = 6
            /\ IsMat(result, NSTRE)
            /\ \A i, j \in Dofs(NSTRE) :
                  IF NSTRE = 8 /\ InShearBlock(i, j)
                  THEN RatEq(result[i][j], RatMulDiv(RatDiv(acc[i][j], a), 5, 6))
                  ELSE RatEq(result[i][j],
                             RatSub(RatDiv(avg[i][j], a), RatDiv(acc[i][j], a)))

\* C8, witness: the 8-component model has returned on a cell whose area is
\* not 1, with a stress response that is not zero in the shear block.
C8_Witness ==
    /\ pc = "returned"
    /\ NSTRE = 8
    /\ area(points) > 1
    /\ result[6][6][1] # 0

LoadsOf(outs) ==
    VecSum([k \in DOMAIN outs |-> IF outs[k].kind = "vec" THEN outs[k].v ELSE <<0, 0>>])

\* C9 as stated: load_vector returns the nodal loads plus the body-load
\* vectors and the strain-load vectors of exactly the blocks that have
\* them.
C9_Original ==
    lv_pc = "returned" =>
        lv_res = VecAdd(lv_nodal, VecAdd(LoadsOf(lv_body), LoadsOf(lv_strain)))

\* C10 as stated: load_vector never returns a load vector when the body-load
\* or strain-load computation of a block has raised.
C10_Original ==
    lv_pc = "returned" => ~(Raises(lv_body) \/ Raises(lv_strain))

\* ------------------------------------------------ properties of the assembly

\* The cells of all blocks of the mesh.
AllCells == Concat(a_blocks)

\* What the stiffness matrix of one cell contributes to the key (r, cl).
Contribution(el, r, cl) ==
    LET part(i, j) == IF el.conn[i] = r /\ el.conn[j] = cl THEN el.Ke[i][j] ELSE 0
    IN  part(1, 1) + part(1, 2) + part(2, 1) + part(2, 2)

TotalContribution(r, cl) ==
    SeqSum([e \in DOMAIN AllCells |-> Contribution(AllCells[e], r, cl)],
           Len(AllCells))

StiffnessReturned ==
    a_pc = "returned" /\ a_call.fn = "elastic_stiffness_matrix_coo"

MassReturned ==
    a_pc = "returned" /\ a_call.fn = "consistent_mass_matrix_coo"

\* C11: every entry of the matrix elastic_stiffness_matrix_coo returns is
\* the sum of the contributions of all cells of all blocks to its key; the
\* matrix is that of the same cells held in one block, and that of the
\* blocks visited in any other order.
C11_ContributionsAreSummed ==
    StiffnessReturned =>
        LET K == todense(a_K)
            ez == a_call.eliminate_zeros
            sd == a_call.sum_duplicates
        IN  /\ \A r, cl \in ADofs : K[r][cl] = TotalContribution(r, cl)
            /\ K = todense(elastic_stiffness_matrix_coo(<<AllCells>>, ez, sd))
            /\ \A order \in Permutations(DOMAIN a_blocks) :
                   K = todense(elastic_stiffness_matrix_coo(
                           [b \in DOMAIN a_blocks |-> a_blocks[order[b]]], ez, sd))

\* A mesh of several blocks whose first two blocks both contribute to one
\* key has been assembled, and the entry holds more than the last block's
\* contribution.
C11_Witness ==
    /\ StiffnessReturned
    /\ Len(a_blocks) >= 2
    /\ \E r, cl \in ADofs :
        LET c1 == coo_value(celldata_elastic_stiffness_matrix_coo(a_blocks[1]), <<r, cl>>)
            c2 == coo_value(celldata_elastic_stiffness_matrix_coo(a_blocks[2]), <<r, cl>>)
        IN  c1 > 0 /\ c2 > 0 /\ todense(a_K)[r][cl] >= c1 + c2

\* C12: with the default options the matrix returned by
\* elastic_stiffness_matrix_coo and by consistent_mass_matrix_coo stores
\* every key at most once and stores no zero, also where the duplicates of
\* a key cancel.
C12_Original ==
    (a_pc = "returned" /\ a_call.eliminate_zeros /\ a_call.sum_duplicates) =>
        /\ \A i, j \in DOMAIN a_K : i # j => KeyOf(a_K[i]) # KeyOf(a_K[j])
        /\ \A i \in DOMAIN a_K : a_K[i][3] # 0

IsSymmetric(D) == \A r, cl \in ADofs : D[r][cl] = D[cl][r]

Transposed(M) == << <<M[1][1], M[2][1]>>, <<M[1][2], M[2][2]>> >>

\* C13: when the stiffness (mass) matrix of every cell of every block is
\* symmetric, the assembled stiffness (mass) matrix is symmetric, whatever
\* nodes the cells share.
C13_SymmetricAssembly ==
    /\ (StiffnessReturned /\ \A e \in DOMAIN AllCells :
            AllCells[e].Ke = Transposed(AllCells[e].Ke))
         => IsSymmetric(todense(a_K))
    /\ (MassReturned /\ \A e \in DOMAIN AllCells :
            AllCells[e].Me = Transposed(AllCells[e].Me))
         => IsSymmetric(todense(a_K))

\* The mass matrix of a mesh of symmetric cells has been assembled, two
\* cells of different blocks sharing degrees of freedom, with a coupling
\* stored off the diagonal.
C13_Witness ==
    /\ MassReturned
    /\ \A e \in DOMAIN AllCells : AllCells[e].Me = Transposed(AllCells[e].Me)
    /\ Len(a_blocks) >= 2
    /\ a_blocks[1][1].conn = a_blocks[2][1].conn
    /\ a_blocks[1][1].Me # a_blocks[2][1].Me
    /\ \E r, cl \in ADofs : r < cl /\ todense(a_K)[r][cl] # 0

\* ---------------------------------------------- properties of the tree queries

RECURSIVE Depth(_, _)
\* Number of ancestors of a block.
Depth(par, b) == IF par[b] = 0 THEN 0 ELSE 1 + Depth(par, par[b])

RECURSIVE PathToRoot(_, _)
\* The block and its ancestors.
PathToRoot(par, b) == IF par[b] = 0 THEN {b} ELSE {b} \cup PathToRoot(par, par[b])

\* The block of the path from b to the root that is nearest to b among
\* those whose model is set; 0 when there is none.
NearestModel(par, mdl, b) ==
    LET withModel == { a \in PathToRoot(par, b) : mdl[a] # "None" }
    IN  IF withModel = {} THEN 0
        ELSE CHOOSE a \in withModel :
                 \A o \in withModel : Depth(par, o) <= Depth(par, a)

\* C14: material_stiffness_matrix of a block answers with the model of the
\* nearest block, from the block itself towards the root, whose model is
\* set: its raw matrix, or the stiffness_matrix() of the model object; it
\* raises when no block of the path has a model; the walk moves one block
\* towards the root with every step and ends at the root at the latest.
C14_NearestModelWins ==
    (m_pc # "idle" /\ m_call.fn = "material_stiffness_matrix") =>
        LET b == m_call.block
            f == NearestModel(m_parent, m_model, b)
        IN  /\ m_at \in PathToRoot(m_parent, b)
            /\ m_steps + Depth(m_parent, m_at) = Depth(m_parent, b)
            /\ \A a \in PathToRoot(m_parent, b) :
                   Depth(m_parent, a) > Depth(m_parent, m_at) => m_model[a] = "None"
            /\ m_pc \in {"returned", "raised"} =>
                /\ f = 0 => m_pc = "raised" /\ is_root(m_parent, m_at)
                /\ f # 0 => m_at = f
                /\ (f # 0 /\ m_model[f] = "ndarray") =>
                       m_pc = "returned" /\ m_result = <<"ndarray", f>>
                /\ (f # 0 /\ m_model[f] = "model") =>
                       m_pc = "returned" /\ m_result = <<"stiffness_matrix", f>>
                /\ (f # 0 /\ m_model[f] = "invalid") => m_pc = "raised"

\* A block without a model of its own has been answered with the
\* stiffness_matrix() of the model object of an ancestor.
C14_Witness ==
    /\ m_pc = "returned"
    /\ m_call.fn = "material_stiffness_matrix"
    /\ m_model[m_call.block] = "None"
    /\ m_steps >= 1
    /\ m_result = <<"stiffness_matrix", m_at>>

\* C15: penalty_matrix_coo builds the penalty matrix from its `fixity`
\* argument, and from the fixity of the root pointdata only when the
\* argument is not given.
C15_Original ==
    (m_pc = "returned" /\ m_call.fn = "penalty_matrix_coo") =>
        m_result = fem_penalty_matrix_coo(
                       IF m_call.fixity = <<>> THEN m_fixity ELSE m_call.fixity,
                       m_call.eliminate_zeros, m_call.sum_duplicates)

\* ------------------------------------------------ properties of the kernels

\* C16: material_strains_mindlin_plate and material_strains_mindlin_shell
\* return the three in-plane components scaled by z and the two transverse
\* shear components (the last two of the reference-surface strain) scaled
\* by (5/4)(1 - 4 (z/t)^2): zero in-plane components and 5/4 of the shear at
\* z = 0, zero shear at z = t/2 and z = -t/2.
C16_Original ==
    (k_pc \in {"returned", "raised"} /\ k_call.fn \in Kernels.strain) =>
        /\ k_pc = "returned"
        /\ \A e \in 0..(k_call.nE - 1), p \in KGauss :
            LET t == args(k_call).t[e]
                z == k_call.z
                strain == args(k_call).model_strains[e][p]
                shearIn(j) == strain[k_call.width - 2 + j]
            IN  /\ \A k \in 0..2 :
                    /\ RatEq(k_res[<<e, p, k>>], <<z * strain[k], 1>>)
                    /\ z = 0 => RatEq(k_res[<<e, p, k>>], <<0, 1>>)
                /\ \A j \in 0..1 :
                    /\ RatEq(k_res[<<e, p, 3 + j>>],
                             <<5 * (t * t - 4 * z * z) * shearIn(j), 4 * t * t>>)
                    /\ z = 0 => RatEq(k_res[<<e, p, 3 + j>>], <<5 * shearIn(j), 4>>)
                    /\ (2 * z = t \/ 2 * z = -t) =>
                           RatEq(k_res[<<e, p, 3 + j>>], <<0, 1>>)

WritesOf(en) == { en.w[k] : k \in DOMAIN en.w }

IsPrefix(s, t) == Len(s) <= Len(t) /\ SubSeq(t, 1, Len(s)) = s

\* Two accesses <<array, index prefix>> touch a common location.
Overlap(x, y) == x[1] = y[1] /\ (IsPrefix(x[2], y[2]) \/ IsPrefix(y[2], x[2]))

RECURSIVE RunInOrder(_, _, _)
\* The output of the iterations todo, run one after the other.
RunInOrder(c, res, todo) ==
    IF todo = {} THEN res
    ELSE LET it == CHOOSE x \in todo : TRUE
         IN  RunInOrder(c, apply_writes(res, writes(c, it)), todo \ {it})

\* C19: no two iterations of a parallel loop write a common location, no
\* iteration reads a location another iteration writes, and the array a
\* kernel returns is the one the iterations give when run in sequence,
\* whatever the order in which they ran.
C19_IterationsAreIndependent ==
    /\ \A a, b \in k_log :
           a.it # b.it =>
               /\ WritesOf(a) \cap WritesOf(b) = {}
               /\ \A x \in WritesOf(a) : \A y \in b.r : ~Overlap(x, y)
    /\ k_pc = "returned" =>
           k_res = RunInOrder(k_call, prologue(k_call), iterations(k_call))

\* A kernel has returned after the iterations of several elements and
\* quadrature points ran.
C19_Witness ==
    /\ k_pc = "returned"
    /\ k_call.fn = "model_strains"
    /\ k_call.nE >= 2
    /\ Cardinality(k_log) >= 4
    /\ \A loc \in DOMAIN k_res : k_res[loc] # 0

\* The positions (row, offset of the degree of freedom) of the
\* strain-displacement operators.
PlatePositions ==
    { <<0, 2>>, <<1, 1>>, <<2, 1>>, <<2, 2>>, <<3, 0>>, <<3, 2>>, <<4, 0>>, <<4, 1>> }

ShellPositions ==
    { <<0, 0>>, <<1, 1>>, <<2, 0>>, <<2, 1>>, <<3, 4>>, <<4, 3>>, <<5, 3>>,
      <<5, 4>>, <<6, 2>>, <<6, 4>>, <<7, 2>>, <<7, 3>> }

\* C20: for node i the strain-displacement operator is written in the
\* columns i * NDOFN .. (i + 1) * NDOFN - 1 only, at the positions of the
\* table of its family, each position once; every other entry is zero, and
\* so is the column of offset 5 of every node of a shell.
C20_OperatorLayout ==
    (k_pc \in {"loop", "returned"} /\ k_call.fn \in Kernels.B) =>
        LET N == dims(k_call.fn).NDOFN
            table == IF k_call.fn = "strain_displacement_matrix_mindlin_plate"
                     THEN PlatePositions ELSE ShellPositions
            written == UNION { WritesOf(a) : a \in k_log }
        IN  /\ \A a \in k_log :
                LET i == a.it[3]
                IN  /\ \A k \in DOMAIN a.w :
                        /\ a.w[k][2][1] = a.it[1]
                        /\ a.w[k][2][2] = a.it[2]
                        /\ a.w[k][2][4] \in (i * N)..((i + 1) * N - 1)
                    /\ { <<a.w[k][2][3], a.w[k][2][4] - i * N>> : k \in DOMAIN a.w }
                           = table
                    /\ Cardinality(WritesOf(a)) = Len(a.w)
            /\ \A a, b \in k_log : a # b => WritesOf(a) \cap WritesOf(b) = {}
            /\ k_pc = "returned" =>
                \A loc \in Locs(k_call) :
                    /\ <<"B", loc>> \notin written => k_res[loc] = 0
                    /\ (N = ShellNDOFN /\ loc[4] % N = 5) => k_res[loc] = 0

\* The operator of a plate of several elements with sheared Jacobians has
\* been returned, with entries of its second node written.
C20_Witness ==
    /\ k_pc = "returned"
    /\ k_call.fn = "strain_displacement_matrix_mindlin_plate"
    /\ k_call.nE >= 2
    /\ k_call.shear = 1
    /\ \E loc \in Locs(k_call) : loc[4] >= PlateNDOFN /\ k_res[loc] # 0

\* C21: model_stiffness_iso_homg_mindlin_shell returns, for every element
\* i, the matrix whose block [0:3, 0:3] is C[i][0:3, 0:3] * t[i], whose
\* block [3:6, 3:6] is C[i][0:3, 0:3] * t[i]^3 / 12, whose block [6:, 6:]
\* is C[i][3:, 3:] * 5 t[i] / 6 and whose other entries are zero; no block
\* assignment fails for the shape of C given.
C21_Original ==
    (k_pc \in {"returned", "raised"}
        /\ k_call.fn = "model_stiffness_iso_homg_mindlin_shell") =>
        /\ k_pc = "returned"
        /\ \A loc \in Locs(k_call) :
            LET Ci == args(k_call).C[loc[1]]
                t == args(k_call).t[loc[1]]
                r == loc[2]
                cl == loc[3]
            IN  RatEq(k_res[loc],
                      IF r < 3 /\ cl < 3 THEN <<Ci[r][cl] * t, 1>>
                      ELSE IF r \in 3..5 /\ cl \in 3..5
                           THEN <<Ci[r - 3][cl - 3] * t * t * t, 12>>
                      ELSE IF r >= 6 /\ cl >= 6
                           THEN <<Ci[r - 3][cl - 3] * 5 * t, 6>>
                      ELSE <<0, 1>>)

\* C22: from_dict picks the cell class by the number of nodes per cell of
\* the topology, B2 for 2 and B3 for 3, and raises NotImplementedError for
\* every other number and for a topology that is not an array.
C22_Original ==
    (n_pc # "idle" /\ n_call.fn = "from_dict") =>
        LET topo == n_call.topo
            nNE == topo.shape[Len(topo.shape)]
        IN  IF topo.kind = "ndarray" /\ nNE = 2 THEN n_result = <<"B2">>
            ELSE IF topo.kind = "ndarray" /\ nNE = 3 THEN n_result = <<"B3">>
            ELSE n_pc = "raised" /\ n_result = <<"NotImplementedError">>

\* C23: a LineMesh given a numpy connectivity of shape (nE, 2, NDOFN)
\* passes the checks and reaches the constructor of FemMesh; given a numpy
\* connectivity of any other shape it fails with an assertion error and
\* nothing else.
C23_Original ==
    (n_pc # "idle" /\ n_call.fn = "__init__"
        /\ n_call.connectivity.kind = "ndarray") =>
        LET sh == n_call.connectivity.shape
        IN  IF Len(sh) = 3 /\ sh[2] = 2 /\ sh[3] = LineNDOFN
            THEN n_pc # "raised"
            ELSE n_pc = "raised" /\ n_result = <<"AssertionError">>

\* The periodicity constraints in the structure's constraint list.
PeriodicCount(cs) ==
    Cardinality({ j \in DOMAIN cs : cs[j] = periodic_essential_ebc(<<0, 1>>) })

\* C24: the constraint list changes in one way only, by the append of one
\* periodicity constraint at its end in the step that leads to the solve,
\* and every invocation that reaches the solve takes that step: nothing is
\* ever removed, so the list grows by one with every invocation that
\* reaches the solve, and a solve runs with as many periodicity constraints
\* as invocations have reached the solve, at most one per invocation made.
C24_OneMoreConstraintPerSolve ==
    [][ /\ constraints' # constraints =>
            /\ pc = "append" /\ pc' = "solve"
            /\ constraints' = Append(constraints, periodic_essential_ebc(<<0, 1>>))
        /\ (pc # "solve" /\ pc' = "solve") =>
            PeriodicCount(constraints') = PeriodicCount(constraints) + 1
        /\ pc' = "solve" =>
            /\ PeriodicCount(constraints') \in 1..(MaxCalls - callsLeft')
            /\ Len(constraints') = 1 + PeriodicCount(constraints')
      ]_vars

\* C24, witness: the second invocation on a structure is at its solve with
\* two periodicity constraints after the user's one.
C24_Witness ==
    /\ pc = "solve"
    /\ callsLeft = MaxCalls - 2
    /\ Len(constraints) = 3
    /\ PeriodicCount(constraints) = 2

\* C25: after homogenize has failed in the strain-load loop or in the
\* solve, the nodal loads and the fixity of the mesh are those of the
\* homogenization setup, every block whose strain loads were written holds
\* them still, and after a failed solve the periodicity constraint of the
\* invocation is still the last entry of the constraint list; this is so
\* when the exception leaves homogenize and after it has left.
C25_NothingRolledBack ==
    /\ (error = "NotImplementedError" /\ solveCount = 0) =>
          /\ loads = zero_loads(points, NDOFN, NSTRE)
          /\ fixity = nodal_fixity(points, NDOFN)
          /\ blocks[ib].NDIM \notin {2, 3}
          /\ \A b \in 1..(ib - 1) : strain_loads[b] = NSTRE
          /\ constraints = pre.constraints
    /\ error = "LinAlgError" =>
          /\ loads = zero_loads(points, NDOFN, NSTRE)
          /\ fixity = nodal_fixity(points, NDOFN)
          /\ \A b \in AllBlocks : strain_loads[b] = NSTRE
          /\ PeriodicityInstalled

\* C25, witness: the first invocation has failed in the solve and has
\* left; the user's loads and fixity are gone, the strain loads and the
\* periodicity constraint are in place.
C25_Witness ==
    /\ pc = "idle"
    /\ error = "LinAlgError"
    /\ callsLeft = MaxCalls - 1
    /\ loads # pre.loads
    /\ fixity # pre.fixity
    /\ \A b \in AllBlocks : pre.strain_loads[b] = 0 /\ strain_loads[b] # 0
    /\ Len(constraints) = Len(pre.constraints) + 1

=============================================================================
